---------------------------- MODULE Spec2Model ----------------------------
(***************************************************************************)
(* Verification model of the poly15-bot trading core:                      *)
(*   - internal/clob/websocket.go : WSClient (reconnecting market stream)  *)
(*   - clob REST client           : Client.doRequest / rotateProxy         *)
(*   - strategy (sniper)          : TrackedMarket price ledger             *)
(*   - strategy (blackswan/weather): PositionTracker                       *)
(* Each subsystem has its own specification (SpecWS, SpecProxy, SpecTick,  *)
(* SpecTracker) over the shared variable list; a specification leaves the  *)
(* variables of the other subsystems at their initial values.              *)
(***************************************************************************)
EXTENDS Integers, Sequences, FiniteSets, TLC

(***************************************************************************)
(* Bounds of the model                                                     *)
(***************************************************************************)
NumTokens == 2

Tokens == 1..NumTokens
\* argument lists of Subscribe / Unsubscribe: the callers of the repository
\* (Sniper.subscribeToToken, Sniper.cleanupExpiredMarkets) pass one id per call;
\* the empty list is the variadic call without arguments
Batches == {{}} \cup {{t} : t \in Tokens}

(***************************************************************************)
(* Program constants of websocket.go (durations in seconds)                *)
(***************************************************************************)
initialBackoff == 1
maxBackoff == 30
backoffFactor == 2

VARIABLES
    \* ---- WSClient fields ----
    conn,           \* c.conn: 0 = nil, 1 = an open connection handle
    subscribed,     \* c.subscribed (set of token ids)
    done,           \* c.done is closed
    \* ---- environment of the WSClient ----
    ctxDone,        \* the context handed to Run is cancelled
    panicked,       \* the runtime panic the process died from, "" while it runs
    pingPC,         \* pingLoop goroutine: "none" | "wait" | "writing" (on the open
                    \* connection) | "writingClosed" (the connection was closed under it)
    \* ---- goroutine executing WSClient.Run ----
    runPC, backoff,
    resubSnap,      \* tokenIDs local of resubscribe = Markets of its message
    readConn,       \* conn local of readLoop: 0 = none, 1 = open, 2 = closed
    \* ---- goroutine of the owner calling the public API ----
    ownerPC,
    ownerOp, ownerIds,  \* the Subscribe / Unsubscribe / Close call in progress
    ownerRes,           \* its result once it has one ("ok" | "err" | "panic")
    \* ---- observation variables of the stream ----
    cycle,          \* "init" | "disc" | "reconn" | "resubbed"
    preDisc,        \* subscribed at the latest disconnect
    mutatedSince,   \* subscribed changed between disconnect and resubscribe snapshot
    resubDone       \* resubscribe returned nil in this iteration of Run

wsVars == <<conn, subscribed, done, ctxDone, panicked, pingPC,
            runPC, backoff, resubSnap, readConn,
            ownerPC, ownerOp, ownerIds, ownerRes,
            cycle, preDisc, mutatedSince, resubDone>>

VARIABLES
    \* ---- clob.Client (REST), proxy rotation ----
    proxyURLs,      \* c.proxyURLs: per entry, "ok" = the URL parses, "bad" = it does not
    currentProxy,   \* c.currentProxy (0-based index)
    httpVia,        \* proxy index c.httpClient's transport dials through, -1 = the
                    \* transport the constructor installed without a rotation list
    \* ---- one call of doRequest ----
    reqPC,          \* "idle" | "loop"
    attempt,        \* loop variable of doRequest
    lastErr,        \* lastErr != nil
    tried,          \* attempts made by this call: <<[via, out]>>
    rotations,      \* rotateProxy calls made by this call
    result,         \* "none" | "resp" | "err" | "exhausted"
    respStatus,     \* status of the returned response, "" if none
    respClosed,     \* resp.Body.Close() was called on the returned response
    prevResult,     \* result of the doRequest call before this one, "none" if none
    \* ---- the API method around doRequest ----
    api             \* the method that made the call and what it handed its caller
                    \* (NoApi until it has returned)

proxyVars == <<proxyURLs, currentProxy, httpVia, reqPC, attempt, lastErr,
               tried, rotations, result, respStatus, respClosed, prevResult, api>>

VARIABLES
    \* ---- strategy.TrackedMarket of the sniper (prices in hundredths) ----
    BestYesBid, BestYesAsk, YesSize,
    BestNoBid, BestNoAsk, NoSize,
    priceHistoryLen,    \* len(tm.priceHistory)
    delivered           \* the wsEvent whose update the read path delivered in the
                        \* last step, NoDelivery after any other step

tickVars == <<BestYesBid, BestYesAsk, YesSize, BestNoBid, BestNoAsk, NoSize,
              priceHistoryLen, delivered>>

VARIABLES
    \* ---- strategy.PositionTracker / WeatherPositionTracker ----
    positions,      \* pt.positions: order id -> position
    opLog           \* the Add / Remove calls made so far, in order

trackerVars == <<positions, opLog>>

VARIABLES
    \* ---- BlackSwanHunter / WeatherSniper around their tracker ----
    hDryRun,        \* h.config.DryRun
    stale,          \* tracked order ids with time.Since(pos.PlacedAt) > maxOrderAge
    pass            \* what the last CheckPositions pass saw and did (NoPass after
                    \* any other step)

reconVars == <<hDryRun, stale, pass>>

VARIABLES
    \* ---- one PositionTracker called from several goroutines ----
    mu,             \* pt.mu: [writer: the goroutine holding Lock or NoOne,
                    \*         readers: the goroutines holding RLock]
    g,              \* per goroutine: the tracker call it is in and its locals
    linearized,     \* the ledger after the mutations so far, each applied whole
                    \* at the moment its goroutine took pt.mu
    calls           \* number of calls started

concVars == <<mu, g, linearized, calls>>

VARIABLES
    \* ---- wallet.Signer called directly ----
    sigCall,        \* the last SignOrder / SignOrderRaw / GetOrderHash call and
                    \* what it returned
    prevHash,       \* the order and digest of the GetOrderHash call before it,
                    \* if that one was accepted
    \* ---- clob.OrderBuilder ----
    builder,        \* the fields of the OrderBuilder
    built           \* the last BuildOrder call and what it returned

signerVars == <<sigCall, prevHash>>
builderVars == <<builder, built>>

VARIABLES
    \* ---- the strategy of the process and its Run loop ----
    task,           \* [strategy, pc, wsStarted]: which strategy runs, where its Run
                    \* is, and whether it started WSClient.Run
    \* ---- the exchange's end of the stream ----
    onConn          \* the ids the exchange holds subscribed on the connection
                    \* dialled last

cancelVars == <<task>>
raceVars == <<onConn>>

VARIABLES
    \* ---- the Black Swan hunter's limits and its last scan ----
    hCfg,           \* [MaxPositions, MaxExposure, bankroll, BetPercent] of the hunter
    scan,           \* the last ScanAndBet pass: its candidates and what it did
    bet             \* the last PlaceBet call made on its own, what it returned and
                    \* the bet counter (h.totalBets)

scanVars == <<hCfg, scan, bet>>

VARIABLES
    \* ---- the observers of the stream ----
    handlers,       \* c.handlers: per registration the observer, its rank among the
                    \* registrations, and how many frames had arrived by then
    arrived,        \* per frame read so far, the update it decoded to
    dispatch,       \* where the read path is: reading, or in notifyHandlers
    dlog,           \* the handler calls made so far, in order
    \* ---- the Telegram bot ----
    bot,            \* what NewBot returned
    botCalls,       \* the number of sending operations called on it
    netCalls,       \* the number of requests made to the Telegram API
    botLast         \* the last sending operation and what it returned

notifyVars == <<handlers, arrived, dispatch, dlog>>
botVars == <<bot, botCalls, netCalls, botLast>>

\* the subsystems added last
lateVars == <<scanVars, notifyVars, botVars>>

\* the subsystems a behaviour of the earlier ones never touches
moreVars == <<cancelVars, raceVars, lateVars>>

\* the subsystems added after the first four
extVars == <<reconVars, concVars, signerVars, builderVars, moreVars>>

vars == <<wsVars, proxyVars, tickVars, trackerVars, extVars>>

\* every action of the stream leaves the other subsystems alone
WSOnly == UNCHANGED <<proxyVars, tickVars, trackerVars, extVars>>
ProxyOnly == UNCHANGED <<wsVars, tickVars, trackerVars, extVars>>
TickOnly == UNCHANGED <<wsVars, proxyVars, trackerVars, extVars>>
TrackerOnly == UNCHANGED <<wsVars, proxyVars, tickVars, extVars>>

ReadPCs == {"readSel", "reading"}
\* positions of Run at which resubscribe has already taken its snapshot
AfterSnapPCs == {"resubWrite", "readStart", "readSel", "reading"}

(***************************************************************************)
(* NewWSClient                                                             *)
(***************************************************************************)
NewWSClient ==
    /\ conn = 0
    /\ subscribed = {}
    /\ done = FALSE
    /\ ctxDone = FALSE
    /\ panicked = ""
    /\ pingPC = "none"
    /\ runPC = "idle"
    /\ backoff = initialBackoff
    /\ resubSnap = {}
    /\ readConn = 0
    /\ ownerPC = "idle"
    /\ ownerOp = "none"
    /\ ownerIds = {}
    /\ ownerRes = "none"
    /\ cycle = "init"
    /\ preDisc = {}
    /\ mutatedSince = FALSE
    /\ resubDone = FALSE

(***************************************************************************)
(* Helpers shared by several methods                                       *)
(***************************************************************************)
\* a wrong ceiling test that restarts the schedule instead of saturating
nextBackoff_reset(current) ==
    LET next == current * backoffFactor
    IN  IF next > maxBackoff THEN initialBackoff ELSE next

\* nextBackoff(current)
nextBackoff(current) ==
    LET next == current * backoffFactor
    IN  IF next > maxBackoff THEN maxBackoff ELSE next

\* closeConnection(): under connMu; conn == nil -> nothing; else close frame,
\* conn.Close(), conn = nil.  Closing the handle also fails a read that is
\* outstanding on it.  A disconnect is observed when a live handle is cleared.
closeConnection ==
    IF conn = 0
    THEN UNCHANGED <<conn, readConn, pingPC, cycle, preDisc, mutatedSince>>
    ELSE /\ conn' = 0
         /\ readConn' = IF readConn = 1 THEN 2 ELSE readConn
         /\ pingPC' = IF pingPC = "writing" THEN "writingClosed" ELSE pingPC
         /\ cycle' = "disc"
         /\ preDisc' = subscribed
         /\ mutatedSince' = FALSE

\* a panic in any goroutine ends the process
Alive == panicked = ""

runVars == <<runPC, backoff, resubSnap, readConn>>
ownerVars == <<ownerPC, ownerOp, ownerIds, ownerRes>>
obsVars == <<cycle, preDisc, mutatedSince, resubDone>>

(***************************************************************************)
(* WSClient.Run, one action per blocking point of the loop                 *)
(***************************************************************************)
\* go ws.Run(ctx): backoff := initialBackoff.  failureCount and loggedDisabled
\* only choose which log line is printed and are left out of the state.
RunStart ==
    /\ Alive /\ runPC = "idle"
    /\ runPC' = "top"
    /\ backoff' = initialBackoff
    /\ UNCHANGED <<conn, subscribed, done, ctxDone, panicked, pingPC,
                   resubSnap, readConn, ownerVars, obsVars>>
    /\ WSOnly

\* select { <-ctx.Done(): return; <-c.done: return; default: } at the loop top
RunTop ==
    /\ Alive /\ runPC = "top"
    /\ runPC' = IF ctxDone \/ done THEN "returned" ELSE "connect"
    /\ resubDone' = FALSE
    /\ resubSnap' = {}
    /\ UNCHANGED <<conn, subscribed, done, ctxDone, panicked, pingPC,
                   backoff, readConn, ownerVars, cycle, preDisc, mutatedSince>>
    /\ WSOnly

\* c.Connect() inside Run: already connected -> nil; dial ok; dial error
RunConnectWith(rest) ==
    /\ Alive /\ runPC = "connect"
    /\ \/ /\ conn # 0
          /\ runPC' = "resub"
          /\ UNCHANGED <<conn, cycle>>
       \/ /\ conn = 0
          /\ conn' = 1
          /\ runPC' = "resub"
          /\ cycle' = IF cycle = "disc" THEN "reconn" ELSE cycle
       \/ /\ conn = 0
          /\ runPC' = "sleep"
          /\ UNCHANGED <<conn, cycle>>
    /\ UNCHANGED <<subscribed, done, ctxDone, panicked, pingPC,
                   backoff, resubSnap, readConn, ownerVars,
                   preDisc, mutatedSince, resubDone>>
    /\ rest

RunConnect == RunConnectWith(WSOnly)

\* c.sleep(ctx, backoff) followed by backoff = c.nextBackoff(backoff)
RunSleep ==
    /\ Alive /\ runPC = "sleep"
    /\ \/ /\ runPC' = "top"                   \* <-timer.C
          /\ backoff' = nextBackoff(backoff)
       \/ /\ ctxDone \/ done                  \* <-ctx.Done() or <-c.done
          /\ runPC' = "returned"
          /\ UNCHANGED backoff
    /\ UNCHANGED <<conn, subscribed, done, ctxDone, panicked, pingPC,
                   resubSnap, readConn, ownerVars, obsVars>>
    /\ WSOnly

\* a resubscribe that drops one id from the copy of the set
RunResubSnap_dropOne ==
    /\ Alive /\ runPC = "resub"
    /\ resubSnap' = IF subscribed = {} THEN {}
                    ELSE subscribed \ {CHOOSE t \in subscribed : TRUE}
    /\ IF resubSnap' = {}
       THEN /\ runPC' = "readStart"
            /\ resubDone' = TRUE
            /\ cycle' = IF cycle = "reconn" THEN "resubbed" ELSE cycle
       ELSE /\ runPC' = "resubWrite"
            /\ UNCHANGED <<resubDone, cycle>>
    /\ UNCHANGED <<conn, subscribed, done, ctxDone, panicked, pingPC,
                   backoff, readConn, ownerVars, preDisc, mutatedSince>>
    /\ WSOnly

\* resubscribe(), first half: copy c.subscribed under mu.RLock
RunResubSnap ==
    /\ Alive /\ runPC = "resub"
    /\ resubSnap' = subscribed
    /\ IF subscribed = {}
       THEN /\ runPC' = "readStart"           \* len(tokenIDs) == 0: return nil
            /\ resubDone' = TRUE
            /\ cycle' = IF cycle = "reconn" THEN "resubbed" ELSE cycle
       ELSE /\ runPC' = "resubWrite"
            /\ UNCHANGED <<resubDone, cycle>>
    /\ UNCHANGED <<conn, subscribed, done, ctxDone, panicked, pingPC,
                   backoff, readConn, ownerVars, preDisc, mutatedSince>>
    /\ WSOnly

\* resubscribe(), second half: c.writeJSON(msg)
RunResubWriteWith(rest) ==
    /\ Alive /\ runPC = "resubWrite"
    /\ \/ /\ conn # 0                         \* WriteJSON succeeded
          /\ resubDone' = TRUE
          /\ cycle' = IF cycle = "reconn" THEN "resubbed" ELSE cycle
          /\ runPC' = "readStart"
       \/ /\ runPC' = "resubClose"            \* not connected, or write error
          /\ UNCHANGED <<resubDone, cycle>>
    /\ UNCHANGED <<conn, subscribed, done, ctxDone, panicked, pingPC,
                   backoff, resubSnap, readConn, ownerVars, preDisc, mutatedSince>>
    /\ rest

RunResubWrite == RunResubWriteWith(WSOnly)

\* resubscribe failed: c.closeConnection(); continue (no sleep)
RunResubClose ==
    /\ Alive /\ runPC = "resubClose"
    /\ closeConnection
    /\ runPC' = "top"
    /\ UNCHANGED <<subscribed, done, ctxDone, panicked,
                   backoff, resubSnap, ownerVars, resubDone>>
    /\ WSOnly

\* readLoop prologue: conn := c.conn under connMu; nil -> "not connected";
\* else go c.pingLoop(ctx, pingDone).  The ping loop of an earlier readLoop saw
\* its pingDone closed at least one sleep ago.  The locals of resubscribe are
\* gone, and the observation of a completed reconnect ends here.
RunReadStart ==
    /\ Alive /\ runPC = "readStart"
    /\ IF conn = 0
       THEN /\ runPC' = "closeAfterRead"
            /\ readConn' = 0
            /\ UNCHANGED pingPC
       ELSE /\ runPC' = "readSel"
            /\ readConn' = 1
            /\ pingPC' = "wait"
    /\ resubSnap' = {}
    /\ cycle' = IF cycle = "resubbed" THEN "init" ELSE cycle
    /\ preDisc' = IF cycle = "resubbed" THEN {} ELSE preDisc
    /\ mutatedSince' = IF cycle = "resubbed" THEN FALSE ELSE mutatedSince
    /\ UNCHANGED <<conn, subscribed, done, ctxDone, panicked,
                   backoff, ownerVars, resubDone>>
    /\ WSOnly

\* select at the top of the read loop
RunReadSel ==
    /\ Alive /\ runPC = "readSel"
    /\ \/ /\ ctxDone                          \* return ctx.Err(): Run returns it
          /\ runPC' = "returned"
       \/ /\ done                             \* return nil: Run falls through
          /\ runPC' = "closeAfterRead"
       \/ /\ ~ctxDone /\ ~done
          /\ runPC' = "reading"
    /\ readConn' = IF runPC' = "reading" THEN readConn ELSE 0
    /\ UNCHANGED <<conn, subscribed, done, ctxDone, panicked, pingPC,
                   backoff, resubSnap, ownerVars, obsVars>>
    /\ WSOnly

\* conn.ReadMessage(): a frame (only while the handle is open) or an error
RunRead ==
    /\ Alive /\ runPC = "reading"
    /\ \/ /\ readConn = 1
          /\ runPC' = "readSel"
          /\ UNCHANGED readConn
       \/ /\ runPC' = "closeAfterRead"
          /\ readConn' = 0
    /\ UNCHANGED <<conn, subscribed, done, ctxDone, panicked, pingPC,
                   backoff, resubSnap, ownerVars, obsVars>>
    /\ WSOnly

\* after readLoop: c.closeConnection(), then the sleep
RunCloseAfterRead ==
    /\ Alive /\ runPC = "closeAfterRead"
    /\ closeConnection
    /\ runPC' = "sleep"
    /\ UNCHANGED <<subscribed, done, ctxDone, panicked,
                   backoff, resubSnap, ownerVars, resubDone>>
    /\ WSOnly

(***************************************************************************)
(* The public API, called from the owner's goroutine (Sniper.Run and the   *)
(* scans it drives).  Subscribe and Unsubscribe release connMu between the *)
(* nil test, the write and the update of the set, so each is three steps.  *)
(***************************************************************************)
\* Connect() called by the owner (Sniper.Run calls it before starting Run)
ConnectWith(rest) ==
    /\ Alive /\ ownerPC = "idle"
    /\ \/ /\ conn # 0                         \* already connected: return nil
          /\ UNCHANGED conn
       \/ /\ conn = 0                         \* dial succeeded
          /\ conn' = 1
       \/ /\ conn = 0                         \* dial failed
          /\ UNCHANGED conn
    /\ UNCHANGED <<subscribed, done, ctxDone, panicked, pingPC, runVars, ownerVars, obsVars>>
    /\ rest

Connect == ConnectWith(WSOnly)

\* Subscribe(tokenIDs...) up to the nil test of c.conn
SubscribeBegin(ids) ==
    /\ Alive /\ ownerPC = "idle"
    /\ ownerOp' = "Subscribe"
    /\ ownerIds' = ids
    /\ IF ids = {}
       THEN /\ ownerRes' = "ok" /\ ownerPC' = "ret"       \* len(tokenIDs) == 0
       ELSE IF conn = 0
            THEN /\ ownerRes' = "err" /\ ownerPC' = "ret"  \* "not connected"
            ELSE /\ ownerRes' = "none" /\ ownerPC' = "subWrite"
    /\ UNCHANGED <<conn, subscribed, done, ctxDone, panicked, pingPC, runVars, obsVars>>
    /\ WSOnly

\* c.writeJSON(msg) of Subscribe
SubscribeWriteWith(rest) ==
    /\ Alive /\ ownerPC = "subWrite"
    /\ \/ /\ conn # 0                         \* WriteJSON succeeded
          /\ ownerPC' = "subUpdate"
          /\ UNCHANGED ownerRes
       \/ /\ ownerRes' = "err"                \* not connected, or write error
          /\ ownerPC' = "ret"
    /\ UNCHANGED <<conn, subscribed, done, ctxDone, panicked, pingPC,
                   runVars, ownerOp, ownerIds, obsVars>>
    /\ rest

SubscribeWrite == SubscribeWriteWith(WSOnly)

\* the set changed after the latest disconnect and before Run's snapshot
NoteMutation(newSet) ==
    mutatedSince' =
        IF newSet # subscribed /\ cycle \in {"disc", "reconn"} /\ runPC \notin AfterSnapPCs
        THEN TRUE ELSE mutatedSince

\* c.subscribed[id] = true for every id, under mu
SubscribeUpdate ==
    /\ Alive /\ ownerPC = "subUpdate"
    /\ subscribed' = subscribed \cup ownerIds
    /\ NoteMutation(subscribed \cup ownerIds)
    /\ ownerRes' = "ok"
    /\ ownerPC' = "ret"
    /\ UNCHANGED <<conn, done, ctxDone, panicked, pingPC, runVars, ownerOp, ownerIds,
                   cycle, preDisc, resubDone>>
    /\ WSOnly

\* Unsubscribe(tokenIDs...) up to the nil test of c.conn
UnsubscribeBegin(ids) ==
    /\ Alive /\ ownerPC = "idle"
    /\ ownerOp' = "Unsubscribe"
    /\ ownerIds' = ids
    /\ IF ids = {}
       THEN /\ ownerRes' = "ok" /\ ownerPC' = "ret"
       ELSE IF conn = 0
            THEN /\ ownerRes' = "err" /\ ownerPC' = "ret"
            ELSE /\ ownerRes' = "none" /\ ownerPC' = "unsubWrite"
    /\ UNCHANGED <<conn, subscribed, done, ctxDone, panicked, pingPC, runVars, obsVars>>
    /\ WSOnly

\* c.writeJSON(msg) of Unsubscribe
UnsubscribeWriteWith(rest) ==
    /\ Alive /\ ownerPC = "unsubWrite"
    /\ \/ /\ conn # 0
          /\ ownerPC' = "unsubUpdate"
          /\ UNCHANGED ownerRes
       \/ /\ ownerRes' = "err"
          /\ ownerPC' = "ret"
    /\ UNCHANGED <<conn, subscribed, done, ctxDone, panicked, pingPC,
                   runVars, ownerOp, ownerIds, obsVars>>
    /\ rest

UnsubscribeWrite == UnsubscribeWriteWith(WSOnly)

\* delete(c.subscribed, id) for every id, under mu
UnsubscribeUpdate ==
    /\ Alive /\ ownerPC = "unsubUpdate"
    /\ subscribed' = subscribed \ ownerIds
    /\ NoteMutation(subscribed \ ownerIds)
    /\ ownerRes' = "ok"
    /\ ownerPC' = "ret"
    /\ UNCHANGED <<conn, done, ctxDone, panicked, pingPC, runVars, ownerOp, ownerIds,
                   cycle, preDisc, resubDone>>
    /\ WSOnly

\* Close(), first statement: close(c.done); closing a closed channel panics
CloseBegin ==
    /\ Alive /\ ownerPC = "idle"
    /\ ownerOp' = "Close"
    /\ ownerIds' = {}
    /\ IF done
       THEN /\ panicked' = "close of closed channel"
            /\ ownerRes' = "panic"
            /\ UNCHANGED <<done, ownerPC>>
       ELSE /\ done' = TRUE
            /\ ownerRes' = "none"
            /\ ownerPC' = "closeConn"
            /\ UNCHANGED panicked
    /\ UNCHANGED <<conn, subscribed, ctxDone, pingPC, runVars, obsVars>>
    /\ WSOnly

\* Close(), second statement: return c.closeConnection()
CloseFinish ==
    /\ Alive /\ ownerPC = "closeConn"
    /\ closeConnection
    /\ ownerOp' = "none"
    /\ ownerRes' = "none"
    /\ ownerPC' = "idle"
    /\ UNCHANGED <<subscribed, done, ctxDone, panicked,
                   runPC, backoff, resubSnap, ownerIds, resubDone>>
    /\ WSOnly

\* the top-level context is cancelled (signal handler of the command)
Cancel ==
    /\ Alive /\ ~ctxDone
    /\ ctxDone' = TRUE
    /\ UNCHANGED <<conn, subscribed, done, panicked, pingPC, runVars, ownerVars, obsVars>>
    /\ WSOnly

(***************************************************************************)
(* pingLoop, the goroutine readLoop starts.  It reads c.conn under connMu   *)
(* but sets the write deadline and writes the ping after releasing it,     *)
(* while writeJSON and closeConnection write under connMu: the two writes  *)
(* on one connection can overlap.                                          *)
(***************************************************************************)
\* <-ctx.Done(), <-done (closed when readLoop returns) or <-c.done: return
PingStop ==
    /\ Alive /\ pingPC = "wait"
    /\ ctxDone \/ done \/ runPC \notin ReadPCs
    /\ pingPC' = "none"
    /\ UNCHANGED <<conn, subscribed, done, ctxDone, panicked,
                   runVars, ownerVars, obsVars>>
    /\ WSOnly

\* <-ticker.C: conn := c.conn under connMu; nil -> return; else start writing
PingTick ==
    /\ Alive /\ pingPC = "wait"
    /\ pingPC' = IF conn = 0 THEN "none" ELSE "writing"
    /\ UNCHANGED <<conn, subscribed, done, ctxDone, panicked,
                   runVars, ownerVars, obsVars>>
    /\ WSOnly

\* conn.WriteMessage(PingMessage) returns: nil -> next tick; error -> return
\* (always an error once the connection was closed under it)
PingWritten ==
    /\ Alive /\ pingPC \in {"writing", "writingClosed"}
    /\ \/ pingPC = "writing" /\ pingPC' = "wait"
       \/ pingPC' = "none"
    /\ UNCHANGED <<conn, subscribed, done, ctxDone, panicked,
                   runVars, ownerVars, obsVars>>
    /\ WSOnly

\* the write of writeJSON or closeConnection starts on the connection the ping
\* is being written to: the websocket library panics on a concurrent write
\* (the outcome without a panic is the writer's own action)
ConcurrentWrite ==
    /\ Alive /\ pingPC = "writing" /\ conn # 0
    /\ \/ runPC = "closeAfterRead"
       \/ ownerPC \in {"subWrite", "unsubWrite", "closeConn"}
    /\ panicked' = "concurrent write to websocket connection"
    /\ UNCHANGED <<conn, subscribed, done, ctxDone, pingPC,
                   runVars, ownerVars, obsVars>>
    /\ WSOnly

\* Subscribe / Unsubscribe return their result to the caller
OwnerReturn ==
    /\ Alive /\ ownerPC = "ret"
    /\ ownerPC' = "idle"
    /\ ownerOp' = "none"
    /\ ownerIds' = {}
    /\ ownerRes' = "none"
    /\ UNCHANGED <<conn, subscribed, done, ctxDone, panicked, pingPC, runVars, obsVars>>
    /\ WSOnly

Subscribe == \E ids \in Batches : SubscribeBegin(ids)
Unsubscribe == \E ids \in Batches : UnsubscribeBegin(ids)

NextWS ==
    \/ RunStart \/ RunTop \/ RunConnect \/ RunSleep
    \/ RunResubSnap \/ RunResubWrite \/ RunResubClose
    \/ RunReadStart \/ RunReadSel \/ RunRead \/ RunCloseAfterRead
    \/ Connect
    \/ Subscribe \/ SubscribeWrite \/ SubscribeUpdate
    \/ Unsubscribe \/ UnsubscribeWrite \/ UnsubscribeUpdate
    \/ OwnerReturn
    \/ CloseBegin \/ CloseFinish
    \/ Cancel
    \/ PingStop \/ PingTick \/ PingWritten \/ ConcurrentWrite

(***************************************************************************)
(* Properties of the market data stream (checked under SpecWS)             *)
(***************************************************************************)

\* C1 (as claimed): after a disconnect followed by a successful reconnect inside
\* Run, the message re-issued by resubscribe carries exactly the set of token
\* ids that was subscribed immediately before the disconnect.
C1_ResubscribeExactlyPreDisconnect ==
    (cycle = "resubbed" /\ resubDone) => resubSnap = preDisc

\* C1 (amended): the re-issued message carries exactly the pre-disconnect set
\* whenever no Subscribe / Unsubscribe updated the set between the disconnect
\* and the copy resubscribe takes of it, and the read loop is entered only
\* after resubscribe has returned without error.
C1_ResubscribeUnlessMutated ==
    /\ (cycle = "resubbed" /\ resubDone /\ ~mutatedSince) => resubSnap = preDisc
    /\ runPC \in ReadPCs => resubDone

\* a reconnect inside Run that re-issued every id and is about to read again
C1_Witness ==
    /\ cycle = "resubbed" /\ resubDone /\ ~mutatedSince
    /\ preDisc = Tokens /\ resubSnap = Tokens
    /\ runPC = "readStart"

\* C2 (as claimed): Subscribe and Unsubscribe always mutate the tracked set,
\* connected or not: once a call has returned, the ids of a Subscribe are in the
\* set and the ids of an Unsubscribe are not.
C2_SetAlwaysUpdated ==
    ownerPC = "ret" =>
        /\ ownerOp = "Subscribe" => ownerIds \subseteq subscribed
        /\ ownerOp = "Unsubscribe" => ownerIds \cap subscribed = {}

\* C5 (as claimed): Close may be called any number of times and each call
\* completes normally.
C5_CloseIdempotent ==
    panicked # "close of closed channel"

\* C6 (as claimed, its safety half): once Close has returned, Run establishes
\* no new connection.
C6_NoConnectAfterClose ==
    [][~( /\ done /\ ownerPC # "closeConn"
          /\ runPC = "connect" /\ runPC' = "resub"
          /\ conn = 0 /\ conn' = 1 )]_vars

\* C7: the backoff Run sleeps with never decreases and never exceeds maxBackoff.
C7_BackoffMonotoneCapped ==
    [][backoff' >= backoff /\ backoff' <= maxBackoff]_vars

\* Run sleeping with the ceiling after the schedule has climbed to it
C7_Witness ==
    runPC = "sleep" /\ backoff = maxBackoff

\* C8 (as claimed): Run returns only when the context is cancelled or Close was
\* called, and while neither has happened and the owner has no call in progress,
\* the goroutines of Run (the loop itself, readLoop, pingLoop) do not end the
\* process.
C8_RunReturnsOnlyOnCancelOrClose ==
    /\ runPC = "returned" => (ctxDone \/ done)
    /\ (~ctxDone /\ ~done /\ ownerPC = "idle") => panicked = ""

(***************************************************************************)
(* clob.Client: doRequest with proxy rotation                              *)
(***************************************************************************)
MaxProxies == 3

\* what one doRequestOnce can come back with: a transport error or a status
Outcomes == {"neterr", "200", "403", "500"}

\* no API method has returned
NoApi == [fn |-> "none", body |-> "", failed |-> FALSE, text |-> <<>>, code |-> "", success |-> FALSE]

\* the request-local part of the state before any request
NoRequest ==
    /\ reqPC = "idle"
    /\ attempt = 0
    /\ lastErr = FALSE
    /\ tried = <<>>
    /\ rotations = 0
    /\ result = "none"
    /\ respStatus = ""
    /\ respClosed = FALSE
    /\ prevResult = "none"
    /\ api = NoApi

\* NewClientWithProxyRotation(proxyURLs): with an empty list NewClient; else
\* NewClientWithProxy(proxyURLs[0]), which fails unless the first URL parses
NewClientWithProxyRotation(urls) ==
    /\ Len(urls) > 0 => urls[1] = "ok"
    /\ proxyURLs = urls
    /\ currentProxy = 0
    /\ httpVia = IF Len(urls) = 0 THEN -1 ELSE 0
    /\ NoRequest

\* rotateProxy(): error with at most one proxy; else advance c.currentProxy,
\* then parse that URL: a parse error returns with the index advanced and
\* c.httpClient untouched, success installs the new transport
rotateProxy(urls, cur, via) ==
    IF Len(urls) <= 1
    THEN [err |-> TRUE, cur |-> cur, via |-> via]
    ELSE LET nxt == (cur + 1) % Len(urls)
         IN  IF urls[nxt + 1] = "ok"
             THEN [err |-> FALSE, cur |-> nxt, via |-> nxt]
             ELSE [err |-> TRUE, cur |-> nxt, via |-> via]

\* maxRetries := len(c.proxyURLs), at least 1
maxRetries == IF Len(proxyURLs) = 0 THEN 1 ELSE Len(proxyURLs)

\* a client that throws its proxy list away once a request has exhausted it
doRequestBegin_discardExhausted ==
    /\ reqPC = "idle"
    /\ result # "none" => api.fn # "none"
    /\ reqPC' = "loop"
    /\ attempt' = 0
    /\ lastErr' = FALSE
    /\ tried' = <<>>
    /\ rotations' = 0
    /\ result' = "none"
    /\ respStatus' = ""
    /\ respClosed' = FALSE
    /\ prevResult' = result
    /\ api' = NoApi
    /\ proxyURLs' = IF result = "exhausted" THEN <<>> ELSE proxyURLs
    /\ UNCHANGED <<currentProxy, httpVia>>
    /\ ProxyOnly

\* doRequest entry, from an API method once the one before it has returned
doRequestBegin ==
    /\ reqPC = "idle"
    /\ result # "none" => api.fn # "none"
    /\ reqPC' = "loop"
    /\ attempt' = 0
    /\ lastErr' = FALSE
    /\ tried' = <<>>
    /\ rotations' = 0
    /\ result' = "none"
    /\ respStatus' = ""
    /\ respClosed' = FALSE
    /\ prevResult' = result
    /\ api' = NoApi
    /\ UNCHANGED <<proxyURLs, currentProxy, httpVia>>
    /\ ProxyOnly

\* return from doRequest
Return(res, status, closed) ==
    /\ reqPC' = "idle"
    /\ result' = res
    /\ respStatus' = status
    /\ respClosed' = closed

\* continue: attempt++, and the loop test; leaving the loop is the aggregate
\* error ("all proxies failed" / "all proxies returned 403")
Continue ==
    /\ attempt' = attempt + 1
    /\ IF attempt + 1 < maxRetries
       THEN /\ reqPC' = "loop"
            /\ UNCHANGED <<result, respStatus, respClosed>>
       ELSE Return("exhausted", "", FALSE)

\* a loop that asks for a rotation whenever a proxy list exists at all
doRequestAttempt_rotateSingle(out) ==
    /\ reqPC = "loop"
    /\ tried' = Append(tried, [via |-> httpVia, out |-> out])
    /\ LET rot == rotateProxy(proxyURLs, currentProxy, httpVia)
       IN  IF out = "neterr"
           THEN /\ lastErr' = TRUE
                /\ IF Len(proxyURLs) > 0
                   THEN /\ rotations' = rotations + 1
                        /\ currentProxy' = rot.cur
                        /\ httpVia' = rot.via
                        /\ IF ~rot.err
                           THEN Continue
                           ELSE /\ Return("err", "", FALSE)
                                /\ UNCHANGED attempt
                   ELSE /\ Return("err", "", FALSE)
                        /\ UNCHANGED <<attempt, rotations, currentProxy, httpVia>>
           ELSE /\ UNCHANGED lastErr
                /\ IF out = "403" /\ Len(proxyURLs) > 0
                   THEN /\ rotations' = rotations + 1
                        /\ currentProxy' = rot.cur
                        /\ httpVia' = rot.via
                        /\ IF ~rot.err
                           THEN Continue
                           ELSE /\ Return("resp", out, TRUE)
                                /\ UNCHANGED attempt
                   ELSE /\ Return("resp", out, FALSE)
                        /\ UNCHANGED <<attempt, rotations, currentProxy, httpVia>>
    /\ UNCHANGED <<proxyURLs, prevResult, api>>
    /\ ProxyOnly

\* one iteration of the loop of doRequest, doRequestOnce coming back with out
doRequestAttempt(out) ==
    /\ reqPC = "loop"
    /\ tried' = Append(tried, [via |-> httpVia, out |-> out])
    /\ LET rot == rotateProxy(proxyURLs, currentProxy, httpVia)
       IN  IF out = "neterr"
           THEN /\ lastErr' = TRUE
                /\ IF Len(proxyURLs) > 1
                   THEN /\ rotations' = rotations + 1
                        /\ currentProxy' = rot.cur
                        /\ httpVia' = rot.via
                        /\ IF ~rot.err
                           THEN Continue
                           ELSE /\ Return("err", "", FALSE)
                                /\ UNCHANGED attempt
                   ELSE /\ Return("err", "", FALSE)
                        /\ UNCHANGED <<attempt, rotations, currentProxy, httpVia>>
           ELSE /\ UNCHANGED lastErr
                /\ IF out = "403" /\ Len(proxyURLs) > 1
                   THEN /\ rotations' = rotations + 1
                        /\ currentProxy' = rot.cur
                        /\ httpVia' = rot.via
                        /\ IF ~rot.err
                           THEN Continue
                           ELSE /\ Return("resp", out, TRUE)
                                /\ UNCHANGED attempt
                   ELSE /\ Return("resp", out, FALSE)
                        /\ UNCHANGED <<attempt, rotations, currentProxy, httpVia>>
    /\ UNCHANGED <<proxyURLs, prevResult, api>>
    /\ ProxyOnly

doRequestOnce == \E out \in Outcomes : doRequestAttempt(out)

(***************************************************************************)
(* The API methods around doRequest: what each hands its caller            *)
(***************************************************************************)
\* response bodies the exchange (or a proxy in front of it) answers with
Bodies ==
    { "{\"success\":true,\"orderID\":\"7\"}",
      "{\"success\":false,\"error\":\"rejected\"}",
      "{\"error\":\"bad request\"}",
      "upstream error" }

\* json.Unmarshal of a body: whether it is JSON at all, and the fields that
\* APIError (code, message) and OrderResponse (success, orderID, error) pick up;
\* a key the body does not have leaves the zero value
Unmarshal(raw) ==
    CASE raw = "{\"success\":true,\"orderID\":\"7\"}" ->
             [ok |-> TRUE, Success |-> TRUE, OrderID |-> "7", Error |-> "", Message |-> ""]
      [] raw = "{\"success\":false,\"error\":\"rejected\"}" ->
             [ok |-> TRUE, Success |-> FALSE, OrderID |-> "", Error |-> "rejected", Message |-> ""]
      [] raw = "{\"error\":\"bad request\"}" ->
             [ok |-> TRUE, Success |-> FALSE, OrderID |-> "", Error |-> "bad request", Message |-> ""]
      [] OTHER ->
             [ok |-> FALSE, Success |-> FALSE, OrderID |-> "", Error |-> "", Message |-> ""]

\* io.ReadAll(resp.Body): the body, or an error (and nothing read) when
\* doRequest closed the body before returning the response
ReadAll(raw, closed) == IF closed THEN [err |-> TRUE, data |-> ""] ELSE [err |-> FALSE, data |-> raw]

\* a returned error: the pieces of its message and, for an *APIError, its Code
ErrorOf(text, code) == [failed |-> TRUE, text |-> text, code |-> code, success |-> FALSE]
NilError(success) == [failed |-> FALSE, text |-> <<>>, code |-> "", success |-> success]

\* parseError(resp); (*APIError).Error() returns e.Message
parseError(status, raw, closed) ==
    LET body == ReadAll(raw, closed)
    IN  IF body.err
        THEN ErrorOf(<<"request failed with status ", status>>, "")
        ELSE IF ~Unmarshal(body.data).ok
             THEN ErrorOf(<<"request failed with status ", status, ": ", body.data>>, "")
             ELSE ErrorOf(<<Unmarshal(body.data).Message>>, status)

\* the part of CreateOrder after doRequest
CreateOrder(res, status, raw, closed) ==
    LET body == ReadAll(raw, closed).data
    IN  IF res # "resp"
        THEN ErrorOf(<<"failed to create order: ", res>>, "")
        ELSE IF status # "200" /\ status # "201"
             THEN ErrorOf(<<"status ", status, ": ", body>>, "")
             ELSE IF ~Unmarshal(body).ok
                  THEN ErrorOf(<<"failed to decode order response: ", "(body: ", body, ")">>, "")
                  ELSE NilError(Unmarshal(body).Success)

\* the part of CancelOrder after doRequest
CancelOrder(res, status, raw, closed) ==
    IF res # "resp"
    THEN ErrorOf(<<"failed to cancel order: ", res>>, "")
    ELSE IF status # "200" /\ status # "204"
         THEN parseError(status, raw, closed)
         ELSE NilError(TRUE)

\* the part of GetOpenOrders after doRequest
GetOpenOrders(res, status, raw, closed) ==
    LET body == ReadAll(raw, closed).data
    IN  IF res # "resp"
        THEN ErrorOf(<<"failed to get open orders: ", res>>, "")
        ELSE IF status # "200"
             THEN ErrorOf(<<"status ", status, ": ", body>>, "")
             ELSE IF ~Unmarshal(body).ok
                  THEN ErrorOf(<<"failed to decode orders: ", "(body: ", body, ")">>, "")
                  ELSE NilError(TRUE)

ApiMethods == {"CreateOrder", "CancelOrder", "GetOpenOrders"}

\* the method that called doRequest returns to its caller
ApiReturn(fn, raw) ==
    /\ reqPC = "idle" /\ result # "none" /\ api.fn = "none"
    /\ LET r == CASE fn = "CreateOrder" -> CreateOrder(result, respStatus, raw, respClosed)
                   [] fn = "CancelOrder" -> CancelOrder(result, respStatus, raw, respClosed)
                   [] fn = "GetOpenOrders" -> GetOpenOrders(result, respStatus, raw, respClosed)
       IN  api' = [fn |-> fn, body |-> IF result = "resp" THEN raw ELSE "",
                   failed |-> r.failed, text |-> r.text, code |-> r.code,
                   success |-> r.success]
    /\ UNCHANGED <<proxyURLs, currentProxy, httpVia, reqPC, attempt, lastErr,
                   tried, rotations, result, respStatus, respClosed, prevResult>>
    /\ ProxyOnly

ApiReturns == \E fn \in ApiMethods, raw \in Bodies : ApiReturn(fn, raw)

NextProxy == doRequestBegin \/ doRequestOnce \/ ApiReturns

(***************************************************************************)
(* The read path of the stream into the sniper's TrackedMarket:            *)
(* handleMessage -> handlePriceChange / handleBookUpdate -> notifyHandlers *)
(* -> Sniper.handleMarketUpdate -> TrackedMarket.UpdateYesPrice / NoPrice  *)
(***************************************************************************)
YesTokenID == "yes-token"
NoTokenID == "no-token"

\* strconv.ParseFloat on the decimal strings of the model, in hundredths
ParseFloat(s) ==
    CASE s = "0.40" -> [ok |-> TRUE, val |-> 40]
      [] s = "0.60" -> [ok |-> TRUE, val |-> 60]
      [] s = "5"    -> [ok |-> TRUE, val |-> 500]
      [] OTHER      -> [ok |-> FALSE, val |-> 0]

PriceStrs == {"0.40", "0.60", "oops"}
\* one side of a book event: no level, a full level, a level whose price does
\* not parse, a level with a single element
LevelLists == {<<>>, <<<<"0.40", "5">>>>, <<<<"0.60", "5">>>>, <<<<"oops", "5">>>>, <<<<"0.60">>>>}
Markets == {YesTokenID, NoTokenID, "other-token", ""}

\* the decoded inbound frames (wsEvent)
Events ==
    [EventType : {"price_change"}, Market : Markets, Price : PriceStrs,
     Side : {"buy", "sell", ""}, Bids : {<<>>}, Asks : {<<>>}]
    \cup
    [EventType : {"book"}, Market : Markets, Price : {""},
     Side : {""}, Bids : LevelLists, Asks : LevelLists]
    \cup
    [EventType : {"last_trade_price"}, Market : Markets, Price : {"0.40"},
     Side : {"buy"}, Bids : {<<>>}, Asks : {<<>>}]

\* MarketUpdate{TokenID: id}: the other fields are the zero value
ZeroUpdate(id) ==
    [TokenID |-> id, BestBid |-> 0, BestAsk |-> 0, BidSize |-> 0, AskSize |-> 0]

\* handlePriceChange(event): the price goes to the side the event names, every
\* other field keeps the zero value; a price that does not parse leaves all zero
handlePriceChange(event) ==
    LET update == ZeroUpdate(event.Market)
        price == ParseFloat(event.Price)
    IN  IF ~price.ok THEN update
        ELSE CASE event.Side = "buy"  -> [update EXCEPT !.BestBid = price.val]
               [] event.Side = "sell" -> [update EXCEPT !.BestAsk = price.val]
               [] OTHER -> update

\* handleBookUpdate(event): first level of each side, when it has two elements
handleBookUpdate(event) ==
    LET update == ZeroUpdate(event.Market)
        hasBid == Len(event.Bids) > 0 /\ Len(event.Bids[1]) >= 2
        hasAsk == Len(event.Asks) > 0 /\ Len(event.Asks[1]) >= 2
        bp == IF hasBid THEN ParseFloat(event.Bids[1][1]) ELSE [ok |-> FALSE, val |-> 0]
        bs == IF hasBid THEN ParseFloat(event.Bids[1][2]) ELSE [ok |-> FALSE, val |-> 0]
        ap == IF hasAsk THEN ParseFloat(event.Asks[1][1]) ELSE [ok |-> FALSE, val |-> 0]
        as == IF hasAsk THEN ParseFloat(event.Asks[1][2]) ELSE [ok |-> FALSE, val |-> 0]
    IN  [update EXCEPT !.BestBid = IF bp.ok THEN bp.val ELSE 0,
                       !.BidSize = IF bs.ok THEN bs.val ELSE 0,
                       !.BestAsk = IF ap.ok THEN ap.val ELSE 0,
                       !.AskSize = IF as.ok THEN as.val ELSE 0]

\* handleMessage(data) up to notifyHandlers: the update handed to the
\* observers, or none (unknown event type, empty token id)
Decoded(event) ==
    CASE event.EventType = "price_change" -> handlePriceChange(event)
      [] event.EventType = "book" -> handleBookUpdate(event)
      [] OTHER -> ZeroUpdate("")

IsDelivered(event) ==
    /\ event.EventType \in {"price_change", "book"}
    /\ Decoded(event).TokenID # ""

\* recordSnapshot(): append, keep the last 10
recordSnapshot ==
    priceHistoryLen' = IF priceHistoryLen + 1 > 10 THEN 10 ELSE priceHistoryLen + 1

\* TrackedMarket.UpdateYesPrice(bid, ask, size)
UpdateYesPrice(bid, ask, size) ==
    /\ BestYesBid' = bid
    /\ BestYesAsk' = ask
    /\ YesSize' = size
    /\ recordSnapshot
    /\ UNCHANGED <<BestNoBid, BestNoAsk, NoSize>>

\* TrackedMarket.UpdateNoPrice(bid, ask, size)
UpdateNoPrice(bid, ask, size) ==
    /\ BestNoBid' = bid
    /\ BestNoAsk' = ask
    /\ NoSize' = size
    /\ recordSnapshot
    /\ UNCHANGED <<BestYesBid, BestYesAsk, YesSize>>

\* Sniper.handleMarketUpdate(update), one market tracked
handleMarketUpdate(update) ==
    IF update.TokenID = YesTokenID
    THEN UpdateYesPrice(update.BestBid, update.BestAsk, update.AskSize)
    ELSE IF update.TokenID = NoTokenID
         THEN UpdateNoPrice(update.BestBid, update.BestAsk, update.AskSize)
         ELSE UNCHANGED <<BestYesBid, BestYesAsk, YesSize,
                          BestNoBid, BestNoAsk, NoSize, priceHistoryLen>>

NoDelivery == [EventType |-> "", Market |-> "", Side |-> ""]

\* handleMessage for one inbound frame
handleMessage(event) ==
    /\ IF IsDelivered(event)
       THEN /\ handleMarketUpdate(Decoded(event))
            /\ delivered' = [EventType |-> event.EventType, Market |-> event.Market,
                             Side |-> event.Side]
       ELSE /\ delivered' = NoDelivery
            /\ UNCHANGED <<BestYesBid, BestYesAsk, YesSize,
                           BestNoBid, BestNoAsk, NoSize, priceHistoryLen>>
    /\ TickOnly

OnFrame == \E event \in Events : handleMessage(event)

\* extractBestPricesWithSize(book): best bid, best ask and the ask's size
extractBestPricesWithSize(book) ==
    LET bp == IF Len(book.Bids) > 0 THEN ParseFloat(book.Bids[1][1]) ELSE [ok |-> FALSE, val |-> 0]
        ap == IF Len(book.Asks) > 0 THEN ParseFloat(book.Asks[1][1]) ELSE [ok |-> FALSE, val |-> 0]
        as == IF Len(book.Asks) > 0 THEN ParseFloat(book.Asks[1][2]) ELSE [ok |-> FALSE, val |-> 0]
    IN  [bid |-> IF bp.ok THEN bp.val ELSE 0,
         ask |-> IF ap.ok THEN ap.val ELSE 0,
         askSize |-> IF as.ok THEN as.val ELSE 0]

\* order books of the REST endpoint: every level has a price and a size
BookLevels == {l \in LevelLists : Len(l) = 0 \/ Len(l[1]) = 2}
Books == [Bids : BookLevels, Asks : BookLevels]

\* Sniper.updateOrderBookPrices, the YES half and the NO half (each runs only
\* when its GetOrderBook succeeded)
updateOrderBookYes(book) ==
    /\ LET x == extractBestPricesWithSize(book)
       IN  UpdateYesPrice(x.bid, x.ask, x.askSize)
    /\ delivered' = NoDelivery
    /\ TickOnly

updateOrderBookNo(book) ==
    /\ LET x == extractBestPricesWithSize(book)
       IN  UpdateNoPrice(x.bid, x.ask, x.askSize)
    /\ delivered' = NoDelivery
    /\ TickOnly

PollYes == \E book \in Books : updateOrderBookYes(book)
PollNo == \E book \in Books : updateOrderBookNo(book)

\* Sniper.trackMarket: both sides start at the token's indicative price
trackMarket(yesPrice, noPrice) ==
    /\ BestYesBid = yesPrice /\ BestYesAsk = yesPrice /\ YesSize = 0
    /\ BestNoBid = noPrice /\ BestNoAsk = noPrice /\ NoSize = 0
    /\ priceHistoryLen = 0
    /\ delivered = NoDelivery

NextTick == OnFrame \/ PollYes \/ PollNo

(***************************************************************************)
(* strategy.PositionTracker (blackswan.go) and WeatherPositionTracker      *)
(* (weather.go): the same map keyed by order id, Size is called Shares in  *)
(* the weather tracker.  Every method holds pt.mu for its whole body.      *)
(* Prices are in cents, sizes in shares.                                   *)
(***************************************************************************)
NumOrders == 2
MaxOps == 3

OrderIDs == 1..NumOrders
Slugs == {"market-a", "market-b"}
\* (BidPrice, Size) of the positions of the model
Stakes == {<<1, 2>>, <<3, 2>>, <<3, 5>>}

OpenPositions ==
    {[OrderID |-> id, MarketSlug |-> m, BidPrice |-> s[1], Size |-> s[2]] :
        id \in OrderIDs, m \in Slugs, s \in Stakes}

RECURSIVE SumOver(_, _)
\* total := 0; for each key: total += f[key]
SumOver(f, S) ==
    IF S = {} THEN 0
    ELSE LET x == CHOOSE y \in S : TRUE
         IN  f[x] + SumOver(f, S \ {x})

\* NewPositionTracker()
NewPositionTracker ==
    /\ positions = <<>>
    /\ opLog = <<>>

\* an Add that keeps the entry already stored under the order id
AddPos_keepFirst(pt, pos) ==
    [id \in DOMAIN pt \cup {pos.OrderID} |->
        IF id \in DOMAIN pt THEN pt[id] ELSE pos]

\* pt.positions[pos.OrderID] = pos
AddPos(pt, pos) ==
    [id \in DOMAIN pt \cup {pos.OrderID} |->
        IF id = pos.OrderID THEN pos ELSE pt[id]]

\* delete(pt.positions, orderID)
RemovePos(pt, orderID) ==
    [id \in DOMAIN pt \ {orderID} |-> pt[id]]

\* PositionTracker.TotalExposure(): sum of Size * BidPrice over the map
TotalExposure(pt) ==
    SumOver([id \in DOMAIN pt |-> pt[id].Size * pt[id].BidPrice], DOMAIN pt)

\* PositionTracker.Count()
Count(pt) == Cardinality(DOMAIN pt)

\* PositionTracker.HasMarket(slug)
HasMarket(pt, slug) == \E id \in DOMAIN pt : pt[id].MarketSlug = slug

\* PositionTracker.Add(pos)
Add(pos) ==
    /\ Len(opLog) < MaxOps
    /\ positions' = AddPos(positions, pos)
    /\ opLog' = Append(opLog, [op |-> "Add", id |-> pos.OrderID, pos |-> pos])
    /\ TrackerOnly

\* PositionTracker.Remove(orderID)
Remove(orderID) ==
    /\ Len(opLog) < MaxOps
    /\ positions' = RemovePos(positions, orderID)
    /\ opLog' = Append(opLog, [op |-> "Remove", id |-> orderID,
                               pos |-> [OrderID |-> orderID, MarketSlug |-> "",
                                        BidPrice |-> 0, Size |-> 0]])
    /\ TrackerOnly

TrackerAdd == \E pos \in OpenPositions : Add(pos)
TrackerRemove == \E id \in OrderIDs : Remove(id)

NextTracker == TrackerAdd \/ TrackerRemove

(***************************************************************************)
(* BlackSwanHunter (blackswan.go) and WeatherSniper (weather.go) around    *)
(* their tracker: PlaceBet tracks an order, CheckPositions reconciles the  *)
(* tracker with the exchange's open orders.  Both run on the goroutine of  *)
(* the strategy's Run loop, one at a time.                                 *)
(***************************************************************************)
ReconOnly ==
    /\ UNCHANGED <<wsVars, proxyVars, tickVars, opLog, concVars, signerVars, builderVars>>
    /\ UNCHANGED moreVars

\* order.GetID() of an order the exchange reports without an id: ""
EmptyID == 0

\* the positions PlaceBet tracks in this model: per order id, two sizes
BetPositions ==
    {p \in OpenPositions : p.MarketSlug = "market-a" /\ p.BidPrice = 3}

NoPass == [ran |-> FALSE, before |-> <<>>, open |-> {}, staleAt |-> {}, cancelOK |-> {}]

\* NewBlackSwanHunter / NewWeatherSniper: an empty tracker
NewBlackSwanHunter(dryRun) ==
    /\ hDryRun = dryRun
    /\ stale = {}
    /\ pass = NoPass

\* PlaceBet, from h.tracker.Add(position) on: PlacedAt is time.Now()
PlaceBet(pos) ==
    /\ positions' = AddPos(positions, pos)
    /\ stale' = stale \ {pos.OrderID}
    /\ pass' = NoPass
    /\ UNCHANGED hDryRun
    /\ ReconOnly

\* time passes: a tracked order becomes older than maxOrderAge
OrderAges(id) ==
    /\ id \in DOMAIN positions /\ id \notin stale
    /\ stale' = stale \cup {id}
    /\ pass' = NoPass
    /\ UNCHANGED <<positions, hDryRun>>
    /\ ReconOnly

\* openOrderMap: the non-empty ids of the orders GetOpenOrders returned
openOrderMap(openOrders) == openOrders \ {EmptyID}

\* a pass that drops a stale order whether or not its cancel request succeeded
checkOne_ignoreCancelError(pt, orderID, openMap, staleNow, cancelOK) ==
    IF orderID \notin openMap
    THEN RemovePos(pt, orderID)
    ELSE IF orderID \in staleNow THEN RemovePos(pt, orderID) ELSE pt

\* body of the loop of CheckPositions for one tracked position
checkOne(pt, orderID, openMap, staleNow, cancelOK) ==
    IF orderID \notin openMap
    THEN RemovePos(pt, orderID)                      \* filled or cancelled
    ELSE IF orderID \in staleNow /\ orderID \in cancelOK
         THEN RemovePos(pt, orderID)                 \* CancelOrder returned nil
         ELSE pt

RECURSIVE checkAll(_, _, _, _, _)
\* for _, pos := range h.tracker.GetAll() { ... }
checkAll(pt, todo, openMap, staleNow, cancelOK) ==
    IF todo = {} THEN pt
    ELSE LET id == CHOOSE x \in todo : TRUE
         IN  checkAll(checkOne(pt, id, openMap, staleNow, cancelOK),
                      todo \ {id}, openMap, staleNow, cancelOK)

\* CheckPositions(): ok = GetOpenOrders returned without error, openOrders the
\* ids of what it returned, cancelOK the ids whose CancelOrder would succeed
CheckPositions(ok, openOrders, cancelOK) ==
    /\ IF hDryRun \/ ~ok
       THEN /\ pass' = NoPass
            /\ UNCHANGED <<positions, stale>>
       ELSE /\ positions' = checkAll(positions, DOMAIN positions,
                                     openOrderMap(openOrders), stale, cancelOK)
            /\ stale' = stale \cap DOMAIN positions'
            /\ pass' = [ran |-> TRUE, before |-> positions,
                        open |-> openOrderMap(openOrders),
                        staleAt |-> stale, cancelOK |-> cancelOK]
    /\ UNCHANGED hDryRun
    /\ ReconOnly

ReconPlaceBet == \E pos \in BetPositions : PlaceBet(pos)
ReconAge == \E id \in OrderIDs : OrderAges(id)
ReconCheck ==
    \E ok \in BOOLEAN, openOrders \in SUBSET (OrderIDs \cup {EmptyID}),
       cancelOK \in SUBSET OrderIDs :
        /\ ~ok => (openOrders = {} /\ cancelOK = {})
        /\ CheckPositions(ok, openOrders, cancelOK)

NextRecon == ReconPlaceBet \/ ReconAge \/ ReconCheck

(***************************************************************************)
(* One PositionTracker shared by several goroutines.  Every method takes   *)
(* pt.mu on entry (Lock for Add and Remove, RLock for the others) and      *)
(* releases it by defer when it returns.  Inside the lock each method is   *)
(* stepped as the code runs: a map write loads the table and stores the    *)
(* changed one, a range loop visits one key per step.                      *)
(***************************************************************************)
ConcOnly ==
    /\ UNCHANGED <<wsVars, proxyVars, tickVars, opLog, reconVars, signerVars, builderVars>>
    /\ UNCHANGED moreVars

Goroutines == {"g1", "g2"}
\* calls made on the tracker in one behaviour
MaxCalls == 4
NoOne == "none"

\* the positions the goroutines add: per order id, one in each market, of
\* different sizes
ConcPositions ==
    {p \in OpenPositions :
        p.BidPrice = 3 /\ (p.Size = 2 <=> p.MarketSlug = "market-a")}

Mutators == {"Add", "Remove"}
Readers == {"Get", "GetAll", "Count", "TotalExposure", "HasMarket"}

\* PositionTracker.Get(orderID): the position, or nil (no element)
GetPos(pt, orderID) == IF orderID \in DOMAIN pt THEN {pt[orderID]} ELSE {}
\* PositionTracker.GetAll(): the positions of the map, in no order
GetAllPos(pt) == {pt[id] : id \in DOMAIN pt}

NotInCall ==
    [pc |-> "idle", op |-> "none", arg |-> 0, tbl |-> <<>>, todo |-> {},
     acc |-> 0, view |-> <<>>, res |-> 0]

NewSharedTracker ==
    /\ mu = [writer |-> NoOne, readers |-> {}]
    /\ g = [t \in Goroutines |-> NotInCall]
    /\ linearized = <<>>
    /\ calls = 0

\* a Lock that does not wait for the holders of the mutex
Lock_noWait(t) ==
    mu' = [mu EXCEPT !.writer = t]

\* pt.mu.Lock(): waits until nobody holds the mutex
Lock(t) ==
    /\ mu.writer = NoOne /\ mu.readers = {}
    /\ mu' = [mu EXCEPT !.writer = t]

\* pt.mu.RLock(): waits until no writer holds the mutex
RLock(t) ==
    /\ mu.writer = NoOne
    /\ mu' = [mu EXCEPT !.readers = @ \cup {t}]

\* defer pt.mu.Unlock() / defer pt.mu.RUnlock()
Unlock(t) == mu' = [mu EXCEPT !.writer = IF @ = t THEN NoOne ELSE @]
RUnlock(t) == mu' = [mu EXCEPT !.readers = @ \ {t}]

\* a goroutine calls a method of the tracker
GoCall(t, op, arg) ==
    /\ g[t].pc = "idle" /\ calls < MaxCalls
    /\ calls' = calls + 1
    /\ g' = [g EXCEPT ![t] = [NotInCall EXCEPT !.pc = "entry", !.op = op, !.arg = arg]]
    /\ UNCHANGED <<positions, mu, linearized>>
    /\ ConcOnly

\* Add, Remove: pt.mu.Lock()
GoLock(t) ==
    /\ g[t].pc = "entry" /\ g[t].op \in Mutators
    /\ Lock(t)
    /\ linearized' = IF g[t].op = "Add" THEN AddPos(linearized, g[t].arg)
                     ELSE RemovePos(linearized, g[t].arg)
    /\ g' = [g EXCEPT ![t].pc = "load"]
    /\ UNCHANGED <<positions, calls>>
    /\ ConcOnly

\* Get, GetAll, Count, TotalExposure, HasMarket: pt.mu.RLock(), and the
\* locals of the method (result slice, total, the keys the range will visit)
GoRLock(t) ==
    /\ g[t].pc = "entry" /\ g[t].op \in Readers
    /\ RLock(t)
    /\ g' = [g EXCEPT ![t].pc = "read",
                      ![t].view = linearized,
                      ![t].todo = DOMAIN positions,
                      ![t].acc = IF g[t].op = "GetAll" THEN {} ELSE 0]
    /\ UNCHANGED <<positions, linearized, calls>>
    /\ ConcOnly

\* the map write of Add / Remove, first half: the table is read
GoLoad(t) ==
    /\ g[t].pc = "load"
    /\ g' = [g EXCEPT ![t].pc = "store", ![t].tbl = positions]
    /\ UNCHANGED <<positions, mu, linearized, calls>>
    /\ ConcOnly

\* Add: pt.positions[pos.OrderID] = pos, then the deferred Unlock
GoAdd(t) ==
    /\ g[t].pc = "store" /\ g[t].op = "Add"
    /\ positions' = AddPos(g[t].tbl, g[t].arg)
    /\ Unlock(t)
    /\ g' = [g EXCEPT ![t].pc = "ret"]
    /\ UNCHANGED <<linearized, calls>>
    /\ ConcOnly

\* Remove: delete(pt.positions, orderID), then the deferred Unlock
GoRemove(t) ==
    /\ g[t].pc = "store" /\ g[t].op = "Remove"
    /\ positions' = RemovePos(g[t].tbl, g[t].arg)
    /\ Unlock(t)
    /\ g' = [g EXCEPT ![t].pc = "ret"]
    /\ UNCHANGED <<linearized, calls>>
    /\ ConcOnly

\* Get: return pt.positions[orderID]
GoGet(t) ==
    /\ g[t].pc = "read" /\ g[t].op = "Get"
    /\ RUnlock(t)
    /\ g' = [g EXCEPT ![t].pc = "ret", ![t].res = GetPos(positions, g[t].arg)]
    /\ UNCHANGED <<positions, linearized, calls>>
    /\ ConcOnly

\* Count: return len(pt.positions)
GoCount(t) ==
    /\ g[t].pc = "read" /\ g[t].op = "Count"
    /\ RUnlock(t)
    /\ g' = [g EXCEPT ![t].pc = "ret", ![t].res = Count(positions)]
    /\ UNCHANGED <<positions, linearized, calls>>
    /\ ConcOnly

\* one iteration of "for _, pos := range pt.positions" in GetAll,
\* TotalExposure or HasMarket, or the return after the last one; a key deleted
\* since the range began is not visited
GoRange(t) ==
    /\ g[t].pc = "read" /\ g[t].op \in {"GetAll", "TotalExposure", "HasMarket"}
    /\ IF g[t].todo = {}
       THEN /\ RUnlock(t)
            /\ g' = [g EXCEPT ![t].pc = "ret",
                              ![t].res = IF g[t].op = "HasMarket" THEN FALSE
                                         ELSE g[t].acc]
       ELSE \E k \in g[t].todo :
              IF k \notin DOMAIN positions
              THEN /\ g' = [g EXCEPT ![t].todo = @ \ {k}]
                   /\ UNCHANGED mu
              ELSE IF g[t].op = "HasMarket" /\ positions[k].MarketSlug = g[t].arg
              THEN /\ RUnlock(t)
                   /\ g' = [g EXCEPT ![t].pc = "ret", ![t].res = TRUE]
              ELSE /\ g' = [g EXCEPT
                         ![t].todo = @ \ {k},
                         ![t].acc =
                            IF g[t].op = "GetAll" THEN @ \cup {positions[k]}
                            ELSE IF g[t].op = "TotalExposure"
                            THEN @ + positions[k].Size * positions[k].BidPrice
                            ELSE @]
                   /\ UNCHANGED mu
    /\ UNCHANGED <<positions, linearized, calls>>
    /\ ConcOnly

\* the caller has the result
GoReturn(t) ==
    /\ g[t].pc = "ret"
    /\ g' = [g EXCEPT ![t] = NotInCall]
    /\ UNCHANGED <<positions, mu, linearized, calls>>
    /\ ConcOnly

ConcCall ==
    \E t \in Goroutines :
        \/ \E pos \in ConcPositions : GoCall(t, "Add", pos)
        \/ \E id \in OrderIDs : GoCall(t, "Remove", id) \/ GoCall(t, "Get", id)
        \/ \E op \in {"GetAll", "Count", "TotalExposure"} : GoCall(t, op, 0)
        \/ \E slug \in Slugs : GoCall(t, "HasMarket", slug)
ConcLock == \E t \in Goroutines : GoLock(t)
ConcRLock == \E t \in Goroutines : GoRLock(t)
ConcLoad == \E t \in Goroutines : GoLoad(t)
ConcAdd == \E t \in Goroutines : GoAdd(t)
ConcRemove == \E t \in Goroutines : GoRemove(t)
ConcGet == \E t \in Goroutines : GoGet(t)
ConcCount == \E t \in Goroutines : GoCount(t)
ConcRange == \E t \in Goroutines : GoRange(t)
ConcReturn == \E t \in Goroutines : GoReturn(t)

NextConc ==
    \/ ConcCall \/ ConcLock \/ ConcRLock \/ ConcLoad \/ ConcAdd \/ ConcRemove
    \/ ConcGet \/ ConcCount \/ ConcRange \/ ConcReturn

(***************************************************************************)
(* wallet.Signer: EIP-712 hashing and signing of orders.  A pointer is a   *)
(* set with no element (nil) or one; an address is a 20-byte number; a     *)
(* byte string is a sequence of numbers 0..255.  Keccak256 is taken to be  *)
(* injective: a hash is its tagged input.                                  *)
(***************************************************************************)
SignerOnly ==
    /\ UNCHANGED <<wsVars, proxyVars, tickVars, trackerVars, reconVars, concVars, builderVars>>
    /\ UNCHANGED moreVars

Nil == {}
Ptr(v) == {v}
Deref(p) == CHOOSE v \in p : TRUE

DomainName == "Polymarket CTF Exchange"
ChainID == 137
\* stand-ins for the two 20-byte contract addresses
ExchangeContract == 75
NegRiskExchangeContract == 192
\* common.Address{}
ZeroAddress == 0

Wallets == {"w1", "w2"}
\* Wallet.Address(): the address derived from the wallet's private key
Address(w) == IF w = "w1" THEN 161 ELSE 162

ErrInvalidOrder == "invalid order parameters"
NoError == "nil"

Abs(n) == IF n < 0 THEN -n ELSE n
Zeros(n) == [i \in 1..n |-> 0]

RECURSIVE Bytes(_)
\* big.Int.Bytes(): the absolute value, big-endian, no leading zero byte
Bytes(n) ==
    IF Abs(n) = 0 THEN <<>>
    ELSE Append(Bytes(Abs(n) \div 256), Abs(n) % 256)

padTo32Bytes(value) ==
    IF value = Nil THEN Zeros(32)
    ELSE LET bytes == Bytes(Deref(value))
         IN  IF Len(bytes) >= 32 THEN SubSeq(bytes, 1, 32)
             ELSE Zeros(32 - Len(bytes)) \o bytes

\* addr.Bytes() is the 20 bytes of the address
padAddress(addr) == Zeros(12) \o (Zeros(20 - Len(Bytes(addr))) \o Bytes(addr))

padUint8(value) == Zeros(31) \o <<value>>

\* crypto.Keccak256Hash(parts...): the hash of the concatenation
Keccak256Hash(data) == <<"keccak256", data>>

computeDomainSeparator(name, chainID, verifyingContract) ==
    Keccak256Hash(<<"EIP712Domain(string name,uint256 chainId,address verifyingContract)",
                    Keccak256Hash(<<name>>)>>
                  \o padTo32Bytes(Ptr(chainID)) \o padAddress(verifyingContract))

hashOrder(order) ==
    Keccak256Hash(<<"orderTypeHash">>
        \o padTo32Bytes(order.Salt)
        \o padAddress(order.Maker)
        \o padAddress(order.Signer)
        \o padAddress(order.Taker)
        \o padTo32Bytes(order.TokenID)
        \o padTo32Bytes(order.MakerAmount)
        \o padTo32Bytes(order.TakerAmount)
        \o padTo32Bytes(order.Expiration)
        \o padTo32Bytes(order.Nonce)
        \o padTo32Bytes(order.FeeRateBps)
        \o padUint8(order.Side)
        \o padUint8(order.SignatureType))

computeEIP712Digest(domainSeparator, structHash) ==
    Keccak256Hash(<<25, 1, domainSeparator, structHash>>)

BigIntFields ==
    {"Salt", "TokenID", "MakerAmount", "TakerAmount", "Expiration", "Nonce", "FeeRateBps"}

\* a validation that does not look at signatureType
validateOrder_anyType(order) ==
    IF order = Nil THEN ErrInvalidOrder
    ELSE IF \E f \in BigIntFields : Deref(order)[f] = Nil THEN ErrInvalidOrder
    ELSE IF Deref(order).Side > 1 THEN ErrInvalidOrder
    ELSE NoError

validateOrder(order) ==
    IF order = Nil THEN ErrInvalidOrder
    ELSE IF \/ Deref(order).Salt = Nil \/ Deref(order).TokenID = Nil
            \/ Deref(order).MakerAmount = Nil \/ Deref(order).TakerAmount = Nil
            \/ Deref(order).Expiration = Nil \/ Deref(order).Nonce = Nil
            \/ Deref(order).FeeRateBps = Nil
         THEN ErrInvalidOrder
    ELSE IF Deref(order).Side > 1 THEN ErrInvalidOrder
    ELSE IF Deref(order).SignatureType > 2 THEN ErrInvalidOrder
    ELSE NoError

NewSignerWithConfig(wallet, chainID, exchangeAddress) ==
    [wallet |-> wallet,
     domainSeparator |-> computeDomainSeparator(DomainName, chainID, exchangeAddress)]

NewSigner(wallet) == NewSignerWithConfig(wallet, ChainID, ExchangeContract)

\* Wallet.Sign -> crypto.Sign: [R || S || V], V the recovery id (0 or 1)
RecoveryIds == {0, 1}
Sign(wallet, hash, recid) == [rs |-> <<wallet, hash>>, v |-> recid]
NoSignature == [rs |-> <<>>, v |-> 0]

\* crypto.SigToPub and PubkeyToAddress: the address of the key that signed
\* this hash (some unrelated address for any other hash)
RecoverAddress(hash, sig) ==
    IF sig.rs # <<>> /\ sig.rs[2] = hash THEN Address(sig.rs[1]) ELSE 255

\* a signature returned with the recovery id as crypto.Sign left it
adjustV_raw(v) == v

\* if signature[64] < 27 { signature[64] += 27 }
adjustV(v) == IF v < 27 THEN v + 27 ELSE v

HexDigits ==
    <<"0", "1", "2", "3", "4", "5", "6", "7", "8", "9", "a", "b", "c", "d", "e", "f">>
\* hex.EncodeToString of one byte
EncodeToString(b) == <<HexDigits[(b \div 16) + 1], HexDigits[(b % 16) + 1]>>
HexValue(c) == CHOOSE i \in 0..15 : HexDigits[i + 1] = c
\* hex.DecodeString of one byte
DecodeString(h) == 16 * HexValue(h[1]) + HexValue(h[2])

\* SignOrderRaw(order) with recid the recovery id the signing produces:
\* [err, signed: wallet.Sign was called, sig: the 65 bytes, digest]
SignOrderRawResult(s, order, recid) ==
    IF validateOrder(order) # NoError
    THEN [err |-> validateOrder(order), signed |-> FALSE, sig |-> NoSignature,
          digest |-> <<>>]
    ELSE LET digest == computeEIP712Digest(s.domainSeparator, hashOrder(Deref(order)))
             signature == Sign(s.wallet, digest, recid)
         IN  [err |-> NoError, signed |-> TRUE,
              sig |-> [signature EXCEPT !.v = adjustV(@)],
              digest |-> digest]

\* SignOrder(order): the same, returned as "0x" + hex
SignOrderResult(s, order, recid) ==
    LET raw == SignOrderRawResult(s, order, recid)
    IN  [err |-> raw.err, signed |-> raw.signed, digest |-> raw.digest,
         sig |-> IF raw.signed
                 THEN [prefix |-> "0x", rs |-> raw.sig.rs,
                       v |-> EncodeToString(raw.sig.v)]
                 ELSE [prefix |-> "", rs |-> <<>>, v |-> <<>>]]

\* ParseSignature(sigHex), as far as the 65 bytes go
ParseSignature(sigHex) == [rs |-> sigHex.rs, v |-> DecodeString(sigHex.v)]

\* GetOrderHash(order)
GetOrderHashResult(s, order) ==
    IF validateOrder(order) # NoError
    THEN [err |-> validateOrder(order), digest |-> <<>>]
    ELSE [err |-> NoError,
          digest |-> computeEIP712Digest(s.domainSeparator, hashOrder(Deref(order)))]

\* the orders the signer is called with: every field set or one big-integer
\* field unset, salts of either sign, sides and signature types in and out of
\* range, signed for by the wallet itself or naming another signer
SignerOrders ==
    {[Salt |-> IF unset = "Salt" THEN Nil ELSE Ptr(salt),
      Maker |-> Address("w1"),
      Signer |-> signer,
      Taker |-> ZeroAddress,
      TokenID |-> IF unset = "TokenID" THEN Nil ELSE Ptr(7),
      MakerAmount |-> IF unset = "MakerAmount" THEN Nil ELSE Ptr(650),
      TakerAmount |-> IF unset = "TakerAmount" THEN Nil ELSE Ptr(1000),
      Expiration |-> IF unset = "Expiration" THEN Nil ELSE Ptr(0),
      Nonce |-> IF unset = "Nonce" THEN Nil ELSE Ptr(0),
      FeeRateBps |-> IF unset = "FeeRateBps" THEN Nil ELSE Ptr(0),
      Side |-> side,
      SignatureType |-> sigType] :
        unset \in BigIntFields \cup {"none"}, salt \in {5, -5},
        signer \in {Address("w1"), Address("w2")},
        side \in {0, 1, 2}, sigType \in {0, 2, 3}}

SignerOrderPtrs == {Nil} \cup {Ptr(o) : o \in SignerOrders}

TheSigner == NewSigner("w1")

NoSignerCall ==
    [fn |-> "none", order |-> Nil, err |-> NoError, signed |-> FALSE,
     v |-> 0, recovered |-> ZeroAddress, digest |-> <<>>]
NoPrevHash == [order |-> Nil, digest |-> <<>>]

SignerIdle ==
    /\ sigCall = NoSignerCall
    /\ prevHash = NoPrevHash

\* signer.SignOrder(order), and what ParseSignature and a recovery against the
\* digest find in the returned signature
SignOrder(order, recid) ==
    LET r == SignOrderResult(TheSigner, order, recid)
    IN  /\ sigCall' =
              [fn |-> "SignOrder", order |-> order, err |-> r.err,
               signed |-> r.signed, digest |-> <<>>,
               v |-> IF r.signed THEN ParseSignature(r.sig).v ELSE 0,
               recovered |-> IF r.signed
                             THEN RecoverAddress(r.digest, ParseSignature(r.sig))
                             ELSE ZeroAddress]
        /\ UNCHANGED prevHash
        /\ SignerOnly

\* signer.SignOrderRaw(order)
SignOrderRaw(order, recid) ==
    LET r == SignOrderRawResult(TheSigner, order, recid)
    IN  /\ sigCall' =
              [fn |-> "SignOrderRaw", order |-> order, err |-> r.err,
               signed |-> r.signed, digest |-> <<>>,
               v |-> r.sig.v,
               recovered |-> IF r.signed THEN RecoverAddress(r.digest, r.sig)
                             ELSE ZeroAddress]
        /\ UNCHANGED prevHash
        /\ SignerOnly

\* signer.GetOrderHash(order)
GetOrderHash(order) ==
    LET r == GetOrderHashResult(TheSigner, order)
    IN  /\ sigCall' =
              [fn |-> "GetOrderHash", order |-> order, err |-> r.err,
               signed |-> FALSE, digest |-> r.digest,
               v |-> 0, recovered |-> ZeroAddress]
        /\ UNCHANGED prevHash
        /\ SignerOnly

\* the caller has the result; the digest of an accepted GetOrderHash is kept
\* for comparison with the next one
SignerReturn ==
    /\ sigCall.fn # "none"
    /\ sigCall' = NoSignerCall
    /\ prevHash' =
          IF sigCall.fn = "GetOrderHash" /\ sigCall.err = NoError
          THEN [order |-> sigCall.order, digest |-> sigCall.digest]
          ELSE prevHash
    /\ SignerOnly

\* one call at a time
SignerSignOrder ==
    /\ sigCall.fn = "none"
    /\ \E order \in SignerOrderPtrs, recid \in RecoveryIds : SignOrder(order, recid)
SignerSignOrderRaw ==
    /\ sigCall.fn = "none"
    /\ \E order \in SignerOrderPtrs, recid \in RecoveryIds : SignOrderRaw(order, recid)
SignerGetOrderHash ==
    /\ sigCall.fn = "none"
    /\ \E order \in SignerOrderPtrs : GetOrderHash(order)

NextSigner ==
    SignerSignOrder \/ SignerSignOrderRaw \/ SignerGetOrderHash \/ SignerReturn

(***************************************************************************)
(* clob.OrderBuilder (builder.go).  A float64 is a decimal number counted  *)
(* in a fixed unit (a price in ten-thousandths, a size in thousandths) or  *)
(* NaN; a string is a sequence of characters.                              *)
(***************************************************************************)
BuilderOnly ==
    /\ UNCHANGED <<wsVars, proxyVars, tickVars, trackerVars, reconVars, concVars, signerVars>>
    /\ UNCHANGED moreVars

defaultFeeRateBps == 0
defaultExpirationSeconds == 3600
\* stand-in for the 20-byte address of the custodial proxy wallet
ProxyWalletAddress == 178

NaN == [nan |-> TRUE, n |-> 0]
Float(n) == [nan |-> FALSE, n |-> n]
\* x <= k and x >= k on float64: false when x is NaN
FloatLeq(x, k) == ~x.nan /\ x.n <= k
FloatGeq(x, k) == ~x.nan /\ x.n >= k

\* math.Round(n / d) for integers: half away from zero
RoundDiv(n, d) ==
    IF n >= 0 THEN (2 * n + d) \div (2 * d) ELSE -((2 * (-n) + d) \div (2 * d))

\* roundToTickSize(price), price and result in ten-thousandths
roundToTickSize(price) ==
    IF price.nan THEN NaN ELSE Float(RoundDiv(price.n, 10) * 10)

\* int64(math.Round(priceRounded * 1000)).  The conversion of NaN is left to
\* the platform (0, or the smallest int64); the products below wrap to 0 for
\* both, sizeWei being even, and 0 stands for both here
priceIntOf(priceRounded) ==
    IF priceRounded.nan THEN 0 ELSE RoundDiv(priceRounded.n, 10)

\* a floor that rounds to the nearest hundredth instead
sizeIntOf_nearest(size) == IF size.nan THEN 0 ELSE RoundDiv(size.n, 10)

\* int64(math.Floor(params.Size * 100)), size in thousandths; NaN as above
sizeIntOf(size) == IF size.nan THEN 0 ELSE size.n \div 10

Digits == <<"0", "1", "2", "3", "4", "5", "6", "7", "8", "9">>
IsDigit(c) == \E i \in 1..10 : Digits[i] = c
DigitValue(c) == (CHOOSE i \in 1..10 : Digits[i] = c) - 1

RECURSIVE DigitsValue(_)
DigitsValue(ds) ==
    IF ds = <<>> THEN 0
    ELSE 10 * DigitsValue(SubSeq(ds, 1, Len(ds) - 1)) + DigitValue(ds[Len(ds)])

\* new(big.Int).SetString(s, 10): an optional sign and at least one decimal
\* digit, nothing else; Nil when ok is false
SetString(str) ==
    LET signed == Len(str) > 0 /\ str[1] \in {"+", "-"}
        body == IF signed THEN Tail(str) ELSE str
    IN  IF body = <<>> \/ \E i \in 1..Len(body) : ~IsDigit(body[i])
        THEN Nil
        ELSE Ptr(IF signed /\ str[1] = "-" THEN -DigitsValue(body)
                 ELSE DigitsValue(body))

RECURSIVE FormatNat(_)
FormatNat(n) ==
    IF n < 10 THEN <<Digits[n + 1]>>
    ELSE Append(FormatNat(n \div 10), Digits[(n % 10) + 1])
\* strconv.FormatInt(n, 10), strconv.Itoa(n), big.Int.String()
FormatInt(n) == IF n < 0 THEN <<"-">> \o FormatNat(-n) ELSE FormatNat(n)

\* strings.ToLower(addr.Hex())
LowerHex(addr) == <<"0x", addr>>

\* sideToUint8
sideToUint8(side) == IF side = "BUY" THEN 0 ELSE 1

NewOrderBuilder(w) ==
    [signer |-> Ptr(NewSigner(w)),
     negRiskSigner |-> Ptr(NewSignerWithConfig(w, ChainID, NegRiskExchangeContract)),
     maker |-> Address(w),
     signerAddr |-> Address(w),
     nonce |-> 0,
     signatureType |-> 0]

\* sigType := uint8(signatureType); if sigType > 2 { sigType = 2 }
NewOrderBuilderWithProxy(w, proxyWalletAddress, signatureType) ==
    [signer |-> Ptr(NewSigner(w)),
     negRiskSigner |-> Ptr(NewSignerWithConfig(w, ChainID, NegRiskExchangeContract)),
     maker |-> proxyWalletAddress,
     signerAddr |-> Address(w),
     nonce |-> 0,
     signatureType |-> IF signatureType % 256 > 2 THEN 2 ELSE signatureType % 256]

\* signerAddr, negRiskSigner and signatureType keep their zero values
NewOrderBuilderWithConfig(w, chainID, exchangeAddress) ==
    [signer |-> Ptr(NewSignerWithConfig(w, chainID, exchangeAddress)),
     negRiskSigner |-> Nil,
     maker |-> Address(w),
     signerAddr |-> ZeroAddress,
     nonce |-> 0,
     signatureType |-> 0]

\* the builders of the model, by constructor
\* (arg is the signatureType argument of NewOrderBuilderWithProxy)
Builders ==
    {[kind |-> "NewOrderBuilder", arg |-> 0, b |-> NewOrderBuilder("w1")],
     [kind |-> "NewOrderBuilderWithConfig", arg |-> 0,
      b |-> NewOrderBuilderWithConfig("w1", ChainID, ExchangeContract)]}
    \cup {[kind |-> "NewOrderBuilderWithProxy", arg |-> t,
           b |-> NewOrderBuilderWithProxy("w1", ProxyWalletAddress, t)] :
              t \in {0, 1, 2, 3, 256}}

Prices ==
    {NaN, Float(-5), Float(0), Float(4), Float(6504), Float(6505), Float(9996),
     Float(10000), Float(12000)}
Sizes == {NaN, Float(-1000), Float(0), Float(5), Float(1234)}
TokenIDs == {<<"7">>, <<"1", "2">>, <<"-", "5">>, <<>>, <<"a">>}

\* time.Now().Unix() at the calls of the model
BuildTime == 1000
\* OrderSide is a string type: the two constants and the zero value
Sides == {"BUY", "SELL", ""}

\* an Expiration of 0, one before and one after the time of the call
BuildParams ==
    [TokenID : TokenIDs, Side : Sides, Price : Prices, Size : Sizes,
     OrderType : {"FOK", "GTC", "GTD"}, Expiration : {0, 900, 1700},
     FeeRateBps : {-1, 10}, NegRisk : BOOLEAN]

NoBuild ==
    [called |-> FALSE, params |-> Nil, err |-> NoError, signed |-> FALSE,
     panicked |-> FALSE, priceInt |-> 0, order |-> Nil, req |-> Nil,
     recovered |-> ZeroAddress, domain |-> <<>>]

\* BuildOrder returning an error before the order struct exists
Rejected(params, err) ==
    [NoBuild EXCEPT !.called = TRUE, !.params = Ptr(params), !.err = err]

\* the expiration of an order that takes the caller's value for every type
expirationOf_asGiven(params, now) ==
    IF params.Expiration = 0 THEN now + defaultExpirationSeconds
    ELSE params.Expiration

\* lines 175-183
expirationOf(params, now) ==
    IF params.OrderType = "GTD"
    THEN IF params.Expiration = 0 THEN now + defaultExpirationSeconds
         ELSE params.Expiration
    ELSE 0

\* BuildOrder(params) from the signing on (lines 221-255): sign, convert
SignAndConvert(b, params, order, priceInt, recid) ==
    LET s == IF params.NegRisk THEN b.negRiskSigner ELSE b.signer
        called == [NoBuild EXCEPT !.called = TRUE, !.params = Ptr(params),
                                  !.priceInt = priceInt, !.order = Ptr(order)]
    IN  IF s = Nil
        THEN \* SignOrder on a nil *Signer: validateOrder passes, then
             \* s.domainSeparator dereferences nil
             [called EXCEPT !.panicked = TRUE]
        ELSE LET r == SignOrderResult(Deref(s), Ptr(order), recid)
             IN  IF r.err # NoError
                 THEN [called EXCEPT !.err = "failed to sign order",
                                     !.signed = r.signed]
                 ELSE [called EXCEPT
                         !.signed = r.signed,
                         !.domain = Deref(s).domainSeparator,
                         !.recovered = RecoverAddress(r.digest, ParseSignature(r.sig)),
                         !.req = Ptr(
                            [Order |->
                               [Salt |-> Deref(order.Salt),
                                Maker |-> LowerHex(b.maker),
                                Signer |-> LowerHex(b.signerAddr),
                                Taker |-> LowerHex(ZeroAddress),
                                TokenID |-> params.TokenID,
                                MakerAmount |-> FormatInt(Deref(order.MakerAmount)),
                                TakerAmount |-> FormatInt(Deref(order.TakerAmount)),
                                Expiration |-> FormatInt(Deref(order.Expiration)),
                                Nonce |-> FormatInt(b.nonce),
                                FeeRateBps |-> FormatInt(Deref(order.FeeRateBps)),
                                Side |-> params.Side,
                                SignatureType |-> b.signatureType,
                                Signature |-> r.sig],
                             OrderType |-> params.OrderType])]

\* BuildOrder(params): salt is what generateSalt returns (Nil on error), now
\* is time.Now().Unix(), recid the recovery id the signing produces
BuildOrderResult(b, params, salt, now, recid) ==
    IF FloatLeq(params.Price, 0) \/ FloatGeq(params.Price, 10000)
    THEN Rejected(params, "price must be between 0 and 1 exclusive")
    ELSE IF FloatLeq(params.Size, 0)
    THEN Rejected(params, "size must be positive")
    ELSE IF salt = Nil
    THEN Rejected(params, "failed to generate salt")
    ELSE
    LET priceInt == priceIntOf(roundToTickSize(params.Price))
        sizeWei == sizeIntOf(params.Size) * 10000
        costWei == (sizeWei * priceInt) \div 1000
        makerAmount == IF params.Side = "BUY" THEN costWei ELSE sizeWei
        takerAmount == IF params.Side = "BUY" THEN sizeWei ELSE costWei
        feeRate == IF params.FeeRateBps < 0 THEN defaultFeeRateBps
                   ELSE params.FeeRateBps
        tokenIDBig == SetString(params.TokenID)
        order == [Salt |-> salt,
                  Maker |-> b.maker,
                  Signer |-> b.signerAddr,
                  Taker |-> ZeroAddress,
                  TokenID |-> tokenIDBig,
                  MakerAmount |-> Ptr(makerAmount),
                  TakerAmount |-> Ptr(takerAmount),
                  Expiration |-> Ptr(expirationOf(params, now)),
                  Nonce |-> Ptr(b.nonce),
                  FeeRateBps |-> Ptr(feeRate),
                  Side |-> sideToUint8(params.Side),
                  SignatureType |-> b.signatureType]
    IN  IF tokenIDBig = Nil
        THEN Rejected(params, "invalid token ID")
        ELSE SignAndConvert(b, params, order, priceInt, recid)

\* b.BuildOrder(params)
BuildOrder(params, salt, now, recid) ==
    /\ built' = BuildOrderResult(builder.b, params, salt, now, recid)
    /\ UNCHANGED builder
    /\ BuilderOnly

\* the caller has the result (or the process has recovered from the panic)
BuildReturn ==
    /\ built.called
    /\ built' = NoBuild
    /\ UNCHANGED builder
    /\ BuilderOnly

\* one call at a time
BuilderBuildOrder ==
    /\ ~built.called
    /\ \E params \in BuildParams, salt \in {Nil, Ptr(1)}, recid \in RecoveryIds :
          BuildOrder(params, salt, BuildTime, recid)

NextBuilder == BuilderBuildOrder \/ BuildReturn

(***************************************************************************)
(* The Run loop of a strategy and the cancellation of the top-level        *)
(* context.  A process runs one strategy; the Sniper owns the WSClient.     *)
(***************************************************************************)
CancelOnly ==
    UNCHANGED <<proxyVars, tickVars, trackerVars,
                reconVars, concVars, signerVars, builderVars, raceVars, lateVars>>

Strategies == {"Sniper", "BlackSwanHunter", "WeatherSniper", "SportsSniper"}

\* the command has built the strategy and is about to call its Run
NewStrategy(name) == task = [strategy |-> name, pc |-> "start", wsStarted |-> FALSE]

\* Run up to its initial scan.  Sniper.Run first calls s.ws.Connect() and
\* starts "go s.ws.Run(ctx)" only when it succeeded; the others go straight on.
StrategyStart ==
    /\ Alive /\ task.pc = "start"
    /\ \/ /\ task.strategy = "Sniper"           \* dial succeeded
          /\ conn' = 1
          /\ task' = [task EXCEPT !.pc = "work", !.wsStarted = TRUE]
       \/ /\ conn' = conn                       \* dial failed, or no stream
          /\ task' = [task EXCEPT !.pc = "work"]
    /\ UNCHANGED <<subscribed, done, ctxDone, panicked, pingPC, runVars, ownerVars, obsVars>>
    /\ CancelOnly

\* the goroutine of "go s.ws.Run(ctx)"
SniperRunStart == task.wsStarted /\ RunStart

\* the select of the Run loop takes a ticker case: ScanForMarkets, CheckAndSnipe,
\* ScanAndBet, CheckPositions, ...  Go chooses among the ready cases at
\* random, so a pending tick can be taken while ctx.Done() is ready too.
StrategyTick ==
    /\ Alive /\ task.pc = "select"
    /\ task' = [task EXCEPT !.pc = "work"]
    /\ UNCHANGED wsVars
    /\ CancelOnly

\* the scans of the Sniper subscribe the tokens of the markets they find
\* (subscribeToToken) and drop those of expired markets (cleanupExpiredMarkets);
\* one token stands for them, cancellation does not look at the ids
SniperSubscribe == task.strategy = "Sniper" /\ task.pc = "work" /\ SubscribeBegin({1})
SniperUnsubscribe == task.strategy = "Sniper" /\ task.pc = "work" /\ UnsubscribeBegin({1})

\* the pass returns (its requests run under the HTTP client's timeout)
StrategyWorkDone ==
    /\ Alive /\ task.pc = "work" /\ ownerPC = "idle"
    /\ task' = [task EXCEPT !.pc = "select"]
    /\ UNCHANGED wsVars
    /\ CancelOnly

\* a loop that answers ctx.Done() with one more pass
StrategyCancelled_ignored ==
    /\ Alive /\ task.pc = "select" /\ ctxDone
    /\ task' = [task EXCEPT !.pc = "work"]
    /\ UNCHANGED wsVars
    /\ CancelOnly

\* case <-ctx.Done(): return ctx.Err(); the Sniper calls s.ws.Close() first
StrategyCancelled ==
    /\ Alive /\ task.pc = "select" /\ ctxDone
    /\ task' = [task EXCEPT !.pc = IF task.strategy = "Sniper" THEN "close" ELSE "returned"]
    /\ UNCHANGED wsVars
    /\ CancelOnly

\* s.ws.Close() of the Sniper's shutdown, and the return after it
SniperCloseBegin == task.pc = "close" /\ ~done /\ CloseBegin

SniperReturn ==
    /\ Alive /\ task.pc = "close" /\ done /\ ownerPC = "idle"
    /\ task' = [task EXCEPT !.pc = "returned"]
    /\ UNCHANGED wsVars
    /\ CancelOnly

\* the steps of the strategy's own goroutine
StrategySteps ==
    \/ StrategyStart \/ StrategyWorkDone \/ StrategyCancelled
    \/ SniperCloseBegin \/ CloseFinish \/ SniperReturn
    \/ SubscribeWrite \/ SubscribeUpdate
    \/ UnsubscribeWrite \/ UnsubscribeUpdate
    \/ OwnerReturn

\* the steps of WSClient.Run that do not depend on a choice of select
RunSteps ==
    \/ SniperRunStart \/ RunTop \/ RunConnect \/ RunSleep
    \/ RunResubSnap \/ RunResubWrite \/ RunResubClose
    \/ RunReadStart \/ RunReadSel \/ RunRead \/ RunCloseAfterRead

NextCancel ==
    \/ StrategySteps
    \/ StrategyTick \/ SniperSubscribe \/ SniperUnsubscribe
    \/ RunSteps
    \/ Cancel
    \/ PingStop \/ PingTick \/ PingWritten \/ ConcurrentWrite

\* Scheduling: every goroutine keeps running (WF on its steps); a write under
\* a deadline returns (WF PingWritten); a pass makes finitely many calls on the
\* stream, one per market of a finite list (SF StrategyWorkDone); a select
\* that is ready for ctx.Done() over and over takes that case at some point,
\* Go choosing uniformly among the ready cases (SF on the cancellation cases).
FairCancel ==
    /\ WF_vars(StrategySteps)
    /\ SF_vars(StrategyWorkDone)
    /\ WF_vars(RunSteps)
    /\ WF_vars(PingWritten)
    /\ SF_vars(StrategyCancelled)
    /\ SF_vars(PingStop)

(***************************************************************************)
(* The stream seen from the exchange: what each connection has been told   *)
(***************************************************************************)
RaceOnly ==
    UNCHANGED <<proxyVars, tickVars, trackerVars,
                reconVars, concVars, signerVars, builderVars, cancelVars, lateVars>>

\* dialer.Dial returned a new connection: the exchange holds nothing for it yet
Dialled == onConn' = (IF conn = 0 /\ conn' # 0 THEN {} ELSE onConn)

RaceRunConnect == RunConnectWith(Dialled /\ RaceOnly)
RaceConnect == ConnectWith(Dialled /\ RaceOnly)

\* conn.WriteJSON(msg) went out: the exchange applies the message
RaceSubscribeWrite ==
    SubscribeWriteWith(
        /\ onConn' = (IF ownerPC' = "subUpdate" THEN onConn \cup ownerIds ELSE onConn)
        /\ RaceOnly)

RaceUnsubscribeWrite ==
    UnsubscribeWriteWith(
        /\ onConn' = (IF ownerPC' = "unsubUpdate" THEN onConn \ ownerIds ELSE onConn)
        /\ RaceOnly)

RaceRunResubWrite ==
    RunResubWriteWith(
        /\ onConn' = (IF runPC' = "readStart" THEN onConn \cup resubSnap ELSE onConn)
        /\ RaceOnly)

\* Run, and the owner's Connect, Subscribe and Unsubscribe calls
NextRace ==
    \/ RunStart \/ RunTop \/ RaceRunConnect \/ RunSleep
    \/ RunResubSnap \/ RaceRunResubWrite \/ RunResubClose
    \/ RunReadStart \/ RunReadSel \/ RunRead \/ RunCloseAfterRead
    \/ RaceConnect
    \/ Subscribe \/ RaceSubscribeWrite \/ SubscribeUpdate
    \/ Unsubscribe \/ RaceUnsubscribeWrite \/ UnsubscribeUpdate
    \/ OwnerReturn

(***************************************************************************)
(* ScanAndBet and PlaceBet of the Black Swan hunter (blackswan.go).  Money *)
(* is counted in thousandths of a dollar and sizes in whole shares; the    *)
(* prices and limits of the model are chosen so that every quotient the    *)
(* code computes on them is a whole number.                                *)
(***************************************************************************)
ScanOnly ==
    UNCHANGED <<wsVars, proxyVars, tickVars, opLog,
                concVars, signerVars, builderVars, cancelVars, raceVars,
                notifyVars, botVars>>

\* const minShares = 5.0
minShares == 5
\* if betsPlaced >= 5: at most five new bets per scan
maxBetsPerScan == 5
\* if betAmountUSD < 0.01: one cent
minBetUSD == 10

\* bid prices of 1 and 5 cents
BidPrices == {10, 50}
ScanCandidates == {[Slug |-> m, BidPrice |-> p] : m \in Slugs, p \in BidPrices}
\* FindCandidates returns at most this many candidates in the model
MaxCandidates == 2
\* the candidates of one scan, best score first
CandidateLists == UNION {[1..n -> ScanCandidates] : n \in 0..MaxCandidates}
\* what placing one order can end in: tracked, or one of the returns with an
\* error (the order not built, not submitted, or answered with success false)
BetOutcomes == {"placed", "rejected"}
\* the same for a single call, the three returns with an error told apart
PlaceOutcomes == {"placed", "buildError", "submitError", "rejected"}

\* BLACKSWAN_MAX_POSITIONS, BLACKSWAN_MAX_EXPOSURE (0.30 and 0.50 dollars),
\* the bankroll (5 dollars) and BLACKSWAN_BET_PERCENT (5 percent)
HunterConfigs ==
    {[MaxPositions |-> n, MaxExposure |-> e, bankroll |-> 5000, BetPercent |-> 5] :
        n \in 0..NumOrders, e \in {300, 500}}

\* of a pass: how many bets it placed, why its loop ended, how many of its
\* candidates the loop had not reached by then, and whether a candidate's
\* market was tracked when the pass began
NoScan == [ran |-> FALSE, placed |-> 0, stop |-> "none", left |-> 0, held |-> FALSE]

\* the order id of the next tracked order: one the tracker does not hold
FreshIDs(pt) == OrderIDs \ DOMAIN pt
NewOrderID(pt) == CHOOSE id \in FreshIDs(pt) : \A other \in FreshIDs(pt) : id <= other

\* PlaceBet up to the order's size: the bet in money, cut to the remaining
\* exposure, then turned into shares and raised to the minimum order size
betShares(h, currentExposure, price) ==
    LET full == (h.bankroll * h.BetPercent) \div 100
        over == currentExposure + full > h.MaxExposure
        betAmountUSD == IF over THEN h.MaxExposure - currentExposure ELSE full
        shares == betAmountUSD \div price
    IN  [refused |-> over /\ betAmountUSD < minBetUSD,
         shares |-> IF shares < minShares THEN minShares ELSE shares]

\* a PlaceBet that tracks the order although the response said success=false
PlaceBetFor_trackRejected(h, dryRun, pt, cand, out) ==
    LET b == betShares(h, TotalExposure(pt), cand.BidPrice)
        position == [OrderID |-> NewOrderID(pt), MarketSlug |-> cand.Slug,
                     BidPrice |-> cand.BidPrice, Size |-> b.shares]
    IN  IF b.refused \/ FreshIDs(pt) = {}
        THEN [err |-> TRUE, pt |-> pt, sent |-> FALSE, counted |-> 0]
        ELSE IF dryRun
        THEN [err |-> FALSE, pt |-> AddPos(pt, position), sent |-> FALSE, counted |-> 1]
        ELSE IF out = "buildError"
        THEN [err |-> TRUE, pt |-> pt, sent |-> FALSE, counted |-> 0]
        ELSE IF out = "submitError"
        THEN [err |-> TRUE, pt |-> pt, sent |-> TRUE, counted |-> 0]
        ELSE IF out = "rejected"
        THEN [err |-> TRUE, pt |-> AddPos(pt, position), sent |-> TRUE, counted |-> 1]
        ELSE [err |-> FALSE, pt |-> AddPos(pt, position), sent |-> TRUE, counted |-> 1]

\* PlaceBet(candidate): whether an error came back, the tracker afterwards,
\* whether CreateOrder was called, and what was added to h.totalBets.  The
\* exchange gives an accepted order an id the tracker does not hold; with no
\* such id left in the model the order is not placed
PlaceBetFor(h, dryRun, pt, cand, out) ==
    LET b == betShares(h, TotalExposure(pt), cand.BidPrice)
        position == [OrderID |-> NewOrderID(pt), MarketSlug |-> cand.Slug,
                     BidPrice |-> cand.BidPrice, Size |-> b.shares]
    IN  IF b.refused \/ FreshIDs(pt) = {}
        THEN [err |-> TRUE, pt |-> pt, sent |-> FALSE, counted |-> 0]
        ELSE IF dryRun
        THEN [err |-> FALSE, pt |-> AddPos(pt, position), sent |-> FALSE, counted |-> 1]
        ELSE IF out = "buildError"
        THEN [err |-> TRUE, pt |-> pt, sent |-> FALSE, counted |-> 0]
        ELSE IF out = "submitError"
        THEN [err |-> TRUE, pt |-> pt, sent |-> TRUE, counted |-> 0]
        ELSE IF out = "rejected"
        THEN [err |-> TRUE, pt |-> pt, sent |-> TRUE, counted |-> 0]
        ELSE [err |-> FALSE, pt |-> AddPos(pt, position), sent |-> TRUE, counted |-> 1]

RECURSIVE scanLoop_noMarketCheck(_, _, _, _, _, _, _)
\* a loop that does not ask HasMarket before placing
scanLoop_noMarketCheck(h, dryRun, pt, cands, outs, i, betsPlaced) ==
    IF i > Len(cands)
    THEN [pt |-> pt, placed |-> betsPlaced, stop |-> "end", at |-> i]
    ELSE IF Count(pt) >= h.MaxPositions
    THEN [pt |-> pt, placed |-> betsPlaced, stop |-> "positions", at |-> i]
    ELSE IF TotalExposure(pt) >= h.MaxExposure
    THEN [pt |-> pt, placed |-> betsPlaced, stop |-> "exposure", at |-> i]
    ELSE LET r == PlaceBetFor(h, dryRun, pt, cands[i], outs[i])
         IN  IF r.err
             THEN scanLoop_noMarketCheck(h, dryRun, pt, cands, outs, i + 1, betsPlaced)
             ELSE IF betsPlaced + 1 >= maxBetsPerScan
             THEN [pt |-> r.pt, placed |-> betsPlaced + 1, stop |-> "bets", at |-> i]
             ELSE scanLoop_noMarketCheck(h, dryRun, r.pt, cands, outs, i + 1, betsPlaced + 1)

RECURSIVE scanLoop_noPositionLimit(_, _, _, _, _, _, _)
\* a loop that looks at the exposure but not at the number of positions
scanLoop_noPositionLimit(h, dryRun, pt, cands, outs, i, betsPlaced) ==
    IF i > Len(cands)
    THEN [pt |-> pt, placed |-> betsPlaced, stop |-> "end", at |-> i]
    ELSE IF TotalExposure(pt) >= h.MaxExposure
    THEN [pt |-> pt, placed |-> betsPlaced, stop |-> "exposure", at |-> i]
    ELSE IF HasMarket(pt, cands[i].Slug)
    THEN scanLoop_noPositionLimit(h, dryRun, pt, cands, outs, i + 1, betsPlaced)
    ELSE LET r == PlaceBetFor(h, dryRun, pt, cands[i], outs[i])
         IN  IF r.err
             THEN scanLoop_noPositionLimit(h, dryRun, pt, cands, outs, i + 1, betsPlaced)
             ELSE IF betsPlaced + 1 >= maxBetsPerScan
             THEN [pt |-> r.pt, placed |-> betsPlaced + 1, stop |-> "bets", at |-> i]
             ELSE scanLoop_noPositionLimit(h, dryRun, r.pt, cands, outs, i + 1, betsPlaced + 1)

RECURSIVE scanLoop(_, _, _, _, _, _, _)
\* for _, candidate := range candidates { ... } of ScanAndBet, from candidate i
scanLoop(h, dryRun, pt, cands, outs, i, betsPlaced) ==
    IF i > Len(cands)
    THEN [pt |-> pt, placed |-> betsPlaced, stop |-> "end", at |-> i]
    ELSE IF Count(pt) >= h.MaxPositions
    THEN [pt |-> pt, placed |-> betsPlaced, stop |-> "positions", at |-> i]
    ELSE IF TotalExposure(pt) >= h.MaxExposure
    THEN [pt |-> pt, placed |-> betsPlaced, stop |-> "exposure", at |-> i]
    ELSE IF HasMarket(pt, cands[i].Slug)
    THEN scanLoop(h, dryRun, pt, cands, outs, i + 1, betsPlaced)
    ELSE LET r == PlaceBetFor(h, dryRun, pt, cands[i], outs[i])
         IN  IF r.err
             THEN scanLoop(h, dryRun, pt, cands, outs, i + 1, betsPlaced)
             ELSE IF betsPlaced + 1 >= maxBetsPerScan
             THEN [pt |-> r.pt, placed |-> betsPlaced + 1, stop |-> "bets", at |-> i]
             ELSE scanLoop(h, dryRun, r.pt, cands, outs, i + 1, betsPlaced + 1)

\* ScanAndBet(): found = FindCandidates returned without error, cands what it
\* returned after the sort, outs what placing an order on each would end in
ScanAndBet(found, cands, outs) ==
    LET r == scanLoop(hCfg, hDryRun, positions, cands, outs, 1, 0)
    IN  /\ IF found /\ Len(cands) > 0
           THEN /\ positions' = r.pt
                /\ scan' = [ran |-> TRUE, placed |-> r.placed, stop |-> r.stop,
                            left |-> IF r.stop = "bets" THEN Len(cands) - r.at
                                     ELSE Len(cands) + 1 - r.at,
                            held |-> \E i \in 1..Len(cands) :
                                        HasMarket(positions, cands[i].Slug)]
           ELSE /\ scan' = NoScan
                /\ UNCHANGED positions
        /\ pass' = NoPass
        /\ UNCHANGED <<hDryRun, stale, hCfg, bet>>
        /\ ScanOnly

ScanPass ==
    \E found \in BOOLEAN, cands \in CandidateLists :
        /\ ~found => cands = <<>>
        /\ \E outs \in [1..Len(cands) -> BetOutcomes] :
            ScanAndBet(found, cands, outs)

\* a CheckPositions pass whose cancel requests all succeed or all fail
ScanCheck ==
    \E openOrders \in SUBSET OrderIDs, cancelOK \in {{}, OrderIDs} :
        CheckPositions(TRUE, openOrders, cancelOK)

NextScan == ScanPass \/ ReconAge \/ ScanCheck

\* the calls of PlaceBet the model makes
MaxBets == 3
NoBet ==
    [called |-> FALSE, out |-> "", err |-> FALSE, sent |-> FALSE,
     before |-> <<>>, after |-> <<>>, was |-> 0, totalBets |-> 0]

\* h.PlaceBet(candidate), the order ending in out when it is requested
PlaceBetCall(cand, out) ==
    LET r == PlaceBetFor(hCfg, hDryRun, positions, cand, out)
    IN  /\ positions' = r.pt
        /\ bet' = [called |-> TRUE, out |-> out, err |-> r.err, sent |-> r.sent,
                   before |-> positions, after |-> r.pt,
                   was |-> bet.totalBets, totalBets |-> bet.totalBets + r.counted]
        /\ pass' = NoPass
        /\ UNCHANGED <<hDryRun, stale, hCfg, scan>>
        /\ ScanOnly

BetCall ==
    /\ bet.totalBets < MaxBets
    /\ \E cand \in ScanCandidates, out \in PlaceOutcomes : PlaceBetCall(cand, out)

NextBet == BetCall \/ ReconAge \/ ScanCheck

(***************************************************************************)
(* The observers of the stream: OnUpdate registers a handler, the read     *)
(* path (readLoop -> handleMessage -> notifyHandlers) calls the handlers.  *)
(* OnUpdate runs on the owner's goroutine and takes c.mu, so it can fall   *)
(* between any two steps of the read path.                                 *)
(***************************************************************************)
NotifyOnly ==
    UNCHANGED <<wsVars, proxyVars, tickVars, trackerVars, reconVars, concVars,
                signerVars, builderVars, cancelVars, raceVars, scanVars, botVars>>

MaxFrames == 3
Observers == {"sniper", "monitor"}

\* the frames of the stream in this model: a price change, a book and a trade
\* event for each market id, the empty one included
StreamFrames ==
    {e \in Events : /\ e.Market \in {YesTokenID, NoTokenID, ""}
                    /\ e.Price \in {"0.40", ""} /\ e.Side \in {"buy", ""}
                    /\ e.Bids = <<>> /\ e.Asks = <<>>}

\* the read path waits in conn.ReadMessage()
NoDispatch == [pc |-> "read", frame |-> 0, snap |-> <<>>, i |-> 0]

\* NewWSClient: handlers: make([]func(MarketUpdate), 0)
NoObservers ==
    /\ handlers = <<>>
    /\ arrived = <<>>
    /\ dispatch = NoDispatch
    /\ dlog = <<>>

\* a registration that puts the new handler in front of the others
appendHandler_inFront(hs, h) == <<h>> \o hs

\* c.handlers = append(c.handlers, handler)
appendHandler(hs, h) == Append(hs, h)

Registered == {handlers[i].obs : i \in DOMAIN handlers}

\* OnUpdate(handler), under c.mu
OnUpdate(h) ==
    /\ h \notin Registered
    /\ handlers' = appendHandler(handlers, [obs |-> h, nth |-> Len(handlers) + 1,
                                             at |-> Len(arrived)])
    /\ UNCHANGED <<arrived, dispatch, dlog>>
    /\ NotifyOnly

\* conn.ReadMessage() returned a frame and handleMessage decoded it: an event
\* of an unknown type or without a token id ends there, any other goes on to
\* notifyHandlers
ReadFrame(event) ==
    /\ dispatch.pc = "read" /\ Len(arrived) < MaxFrames
    /\ arrived' = Append(arrived, IF IsDelivered(event) THEN Decoded(event)
                                  ELSE ZeroUpdate(""))
    /\ dispatch' = IF IsDelivered(event)
                   THEN [pc |-> "copy", frame |-> Len(arrived) + 1, snap |-> <<>>, i |-> 0]
                   ELSE NoDispatch
    /\ UNCHANGED <<handlers, dlog>>
    /\ NotifyOnly

\* notifyHandlers: copy(handlers, c.handlers) under c.mu.RLock
NotifyCopy ==
    /\ dispatch.pc = "copy"
    /\ dispatch' = IF Len(handlers) = 0 THEN NoDispatch
                   ELSE [dispatch EXCEPT !.pc = "call", !.snap = handlers, !.i = 1]
    /\ UNCHANGED <<handlers, arrived, dlog>>
    /\ NotifyOnly

\* notifyHandlers: handler(update) for the next handler of the copy; the
\* call returns before the loop goes on
NotifyCall ==
    /\ dispatch.pc = "call"
    /\ dlog' = Append(dlog, [obs |-> dispatch.snap[dispatch.i].obs,
                             frame |-> dispatch.frame,
                             update |-> arrived[dispatch.frame]])
    /\ dispatch' = IF dispatch.i = Len(dispatch.snap) THEN NoDispatch
                   ELSE [dispatch EXCEPT !.i = dispatch.i + 1]
    /\ UNCHANGED <<handlers, arrived>>
    /\ NotifyOnly

NotifyRegister == \E h \in Observers : OnUpdate(h)
NotifyRead == \E event \in StreamFrames : ReadFrame(event)

NextNotify == NotifyRegister \/ NotifyRead \/ NotifyCopy \/ NotifyCall

(***************************************************************************)
(* The Telegram bot (telegram/bot.go)                                      *)
(***************************************************************************)
BotOnly ==
    UNCHANGED <<wsVars, proxyVars, tickVars, trackerVars, reconVars, concVars,
                signerVars, builderVars, cancelVars, raceVars, scanVars, notifyVars>>

BotTokens == {"", "123:abc"}
ChatIDs == {"42", "not-a-number", ""}
\* strconv.ParseInt(chatID, 10, 64) on the chat ids of the model
ParseIntOK(chatID) == chatID = "42"

\* NewBot returned an error and no bot
NoBot == [made |-> FALSE, token |-> "", disabled |-> FALSE, api |-> FALSE, dryRun |-> FALSE]
NoBotCall == [op |-> "none", markdown |-> FALSE, err |-> FALSE]

\* NewBot(token, chatID); apiOK = tgbotapi.NewBotAPI(token), which asks the
\* Telegram API who the token belongs to, succeeded
NewBot(token, chatID, apiOK) ==
    /\ botCalls = 0
    /\ botLast = NoBotCall
    /\ IF token = ""
       THEN /\ bot = [made |-> TRUE, token |-> token, disabled |-> TRUE,
                      api |-> FALSE, dryRun |-> FALSE]
            /\ netCalls = 0
       ELSE IF ~ParseIntOK(chatID)
       THEN bot = NoBot /\ netCalls = 0
       ELSE /\ netCalls = 1
            /\ bot = IF apiOK
                     THEN [made |-> TRUE, token |-> token, disabled |-> FALSE,
                           api |-> TRUE, dryRun |-> FALSE]
                     ELSE NoBot

\* a send that goes to the API whatever the mode: with no api it fails
send_alwaysSends(b, useMarkdown, sendOK) ==
    [err |-> ~(b.api /\ sendOK), net |-> 1, markdown |-> useMarkdown]

\* b.send(text, useMarkdown); sendOK = b.api.Send(msg) returned no error
send(b, useMarkdown, sendOK) ==
    IF b.disabled
    THEN [err |-> FALSE, net |-> 0, markdown |-> useMarkdown]
    ELSE [err |-> ~sendOK, net |-> 1, markdown |-> useMarkdown]

\* SendMessage(text)
SendMessage(b, sendOK) == send(b, FALSE, sendOK)
\* SendAlert(title, message)
SendAlert(b, sendOK) == send(b, TRUE, sendOK)

\* NotifyStarted, NotifyStopped, NotifyMarketFound, NotifyOrderExecuted and
\* NotifyError format a text and return b.SendAlert(title, text)
Notifications ==
    {"NotifyStarted", "NotifyStopped", "NotifyMarketFound",
     "NotifyOrderExecuted", "NotifyError"}
BotOps == {"SendMessage", "SendAlert"} \cup Notifications

\* one sending operation, called on the bot NewBot returned
BotCall(op, sendOK) ==
    /\ bot.made /\ botCalls < MaxCalls
    /\ LET r == IF op = "SendMessage" THEN SendMessage(bot, sendOK)
                ELSE SendAlert(bot, sendOK)
       IN  /\ botLast' = [op |-> op, markdown |-> r.markdown, err |-> r.err]
           /\ netCalls' = netCalls + r.net
    /\ botCalls' = botCalls + 1
    /\ UNCHANGED bot
    /\ BotOnly

\* SetDryRun(dryRun)
SetDryRun(dryRun) ==
    /\ bot.made /\ bot.dryRun # dryRun
    /\ bot' = [bot EXCEPT !.dryRun = dryRun]
    /\ UNCHANGED <<botCalls, netCalls, botLast>>
    /\ BotOnly

BotSends == \E op \in BotOps, sendOK \in BOOLEAN : BotCall(op, sendOK)
BotSetsDryRun == \E dryRun \in BOOLEAN : SetDryRun(dryRun)

NextBot == BotSends \/ BotSetsDryRun

(***************************************************************************)
(* Specifications                                                          *)
(***************************************************************************)
ProxyUnused == NewClientWithProxyRotation(<<>>)
TickUnused == trackMarket(0, 0)
\* no strategy, no goroutines on a shared tracker, no signer and no builder
\* exist in a behaviour that does not exercise them
ReconUnused == hDryRun = FALSE /\ stale = {} /\ pass = Nil
ConcUnused == mu = Nil /\ g = Nil /\ linearized = Nil /\ calls = 0
SignerUnused == sigCall = Nil /\ prevHash = Nil
BuilderUnused == builder = Nil /\ built = Nil
CancelUnused == task = Nil
RaceUnused == onConn = Nil
ScanUnused == hCfg = Nil /\ scan = Nil /\ bet = Nil
NotifyUnused == handlers = Nil /\ arrived = Nil /\ dispatch = Nil /\ dlog = Nil
BotUnused == bot = Nil /\ botCalls = 0 /\ netCalls = 0 /\ botLast = Nil
LateUnused == ScanUnused /\ NotifyUnused /\ BotUnused
MoreUnused == CancelUnused /\ RaceUnused /\ LateUnused
ExtUnused == ReconUnused /\ ConcUnused /\ SignerUnused /\ BuilderUnused /\ MoreUnused

InitWS ==
    /\ NewWSClient /\ ProxyUnused /\ TickUnused /\ NewPositionTracker
    /\ ExtUnused
SpecWS == InitWS /\ [][NextWS]_vars

ProxyLists ==
    UNION {[1..n -> {"ok", "bad"}] : n \in 0..MaxProxies}

InitProxy ==
    /\ \E urls \in ProxyLists : NewClientWithProxyRotation(urls)
    /\ NewWSClient /\ TickUnused /\ NewPositionTracker
    /\ ExtUnused
SpecProxy == InitProxy /\ [][NextProxy]_vars

InitTick ==
    /\ \E y \in {40, 60}, n \in {40, 60} : trackMarket(y, n)
    /\ NewWSClient /\ ProxyUnused /\ NewPositionTracker
    /\ ExtUnused
SpecTick == InitTick /\ [][NextTick]_vars

InitTracker ==
    /\ NewPositionTracker /\ NewWSClient /\ ProxyUnused /\ TickUnused
    /\ ExtUnused
SpecTracker == InitTracker /\ [][NextTracker]_vars

\* the parts every specification below leaves as constructed
CoreUnused == NewWSClient /\ ProxyUnused /\ TickUnused /\ MoreUnused

InitRecon ==
    /\ \E dryRun \in BOOLEAN : NewBlackSwanHunter(dryRun)
    /\ NewPositionTracker
    /\ CoreUnused /\ ConcUnused /\ SignerUnused /\ BuilderUnused
SpecRecon == InitRecon /\ [][NextRecon]_vars

InitConc ==
    /\ NewSharedTracker
    /\ NewPositionTracker
    /\ CoreUnused /\ ReconUnused /\ SignerUnused /\ BuilderUnused
SpecConc == InitConc /\ [][NextConc]_vars

InitSigner ==
    /\ SignerIdle
    /\ NewPositionTracker
    /\ CoreUnused /\ ReconUnused /\ ConcUnused /\ BuilderUnused
SpecSigner == InitSigner /\ [][NextSigner]_vars

InitBuilder ==
    /\ builder \in Builders /\ built = NoBuild
    /\ NewPositionTracker
    /\ CoreUnused /\ ReconUnused /\ ConcUnused /\ SignerUnused
SpecBuilder == InitBuilder /\ [][NextBuilder]_vars

InitCancel ==
    /\ \E name \in Strategies : NewStrategy(name)
    /\ NewWSClient /\ ProxyUnused /\ TickUnused /\ NewPositionTracker
    /\ ReconUnused /\ ConcUnused /\ SignerUnused /\ BuilderUnused /\ RaceUnused
    /\ LateUnused
SpecCancel == InitCancel /\ [][NextCancel]_vars /\ FairCancel

InitRace ==
    /\ onConn = {}
    /\ NewWSClient /\ ProxyUnused /\ TickUnused /\ NewPositionTracker
    /\ ReconUnused /\ ConcUnused /\ SignerUnused /\ BuilderUnused /\ CancelUnused
    /\ LateUnused
SpecRace == InitRace /\ [][NextRace]_vars

InitScan ==
    /\ \E dryRun \in BOOLEAN : NewBlackSwanHunter(dryRun)
    /\ hCfg \in HunterConfigs /\ scan = NoScan /\ bet = Nil
    /\ NewPositionTracker
    /\ NewWSClient /\ ProxyUnused /\ TickUnused /\ CancelUnused /\ RaceUnused
    /\ ConcUnused /\ SignerUnused /\ BuilderUnused /\ NotifyUnused /\ BotUnused
SpecScan == InitScan /\ [][NextScan]_vars

InitBet ==
    /\ \E dryRun \in BOOLEAN : NewBlackSwanHunter(dryRun)
    /\ hCfg \in HunterConfigs /\ scan = Nil /\ bet = NoBet
    /\ NewPositionTracker
    /\ NewWSClient /\ ProxyUnused /\ TickUnused /\ CancelUnused /\ RaceUnused
    /\ ConcUnused /\ SignerUnused /\ BuilderUnused /\ NotifyUnused /\ BotUnused
SpecBet == InitBet /\ [][NextBet]_vars

InitNotify ==
    /\ NoObservers
    /\ NewWSClient /\ ProxyUnused /\ TickUnused /\ NewPositionTracker
    /\ ReconUnused /\ ConcUnused /\ SignerUnused /\ BuilderUnused
    /\ CancelUnused /\ RaceUnused /\ ScanUnused /\ BotUnused
SpecNotify == InitNotify /\ [][NextNotify]_vars

InitBot ==
    /\ \E token \in BotTokens, chatID \in ChatIDs, apiOK \in BOOLEAN :
            NewBot(token, chatID, apiOK)
    /\ NewWSClient /\ ProxyUnused /\ TickUnused /\ NewPositionTracker
    /\ ReconUnused /\ ConcUnused /\ SignerUnused /\ BuilderUnused
    /\ CancelUnused /\ RaceUnused /\ ScanUnused /\ NotifyUnused
SpecBot == InitBot /\ [][NextBot]_vars

(***************************************************************************)
(* Properties of the REST client (checked under SpecProxy)                 *)
(***************************************************************************)
ProxiesTried == {tried[i].via : i \in 1..Len(tried)}

\* C3 (as claimed): within one doRequest no configured proxy serves two
\* attempts, and a failure is reported only after each of the N configured
\* proxies has served one.
C3_EachProxyOnceAndAllBeforeFailure ==
    /\ \A i, j \in 1..Len(tried) : i # j => tried[i].via # tried[j].via
    /\ result \in {"err", "exhausted"} =>
           \A p \in 0..(Len(proxyURLs) - 1) : p \in ProxiesTried

\* C4 (as claimed, for two proxies whose URLs both parse): a 403 on the first
\* attempt is followed by exactly one rotation and exactly one retry before
\* doRequest returns a response or reports exhaustion.
C4_OneRotationOneRetry ==
    ( /\ Len(proxyURLs) = 2 /\ proxyURLs[1] = "ok" /\ proxyURLs[2] = "ok"
      /\ reqPC = "idle" /\ result # "none"
      /\ tried[1].out = "403" )
    => (rotations = 1 /\ Len(tried) = 2)

(***************************************************************************)
(* Properties of the sniper's price ledger (checked under SpecTick)        *)
(***************************************************************************)

\* C9 (as claimed): delivering a price_change for one side of a token leaves
\* the other side's last-known price (and, for the ask, its size) unchanged.
C9_PartialUpdateKeepsOtherSide ==
    [][ delivered'.EventType = "price_change" =>
          /\ (delivered'.Market = YesTokenID /\ delivered'.Side = "buy")
                => (BestYesAsk' = BestYesAsk /\ YesSize' = YesSize)
          /\ (delivered'.Market = YesTokenID /\ delivered'.Side = "sell")
                => BestYesBid' = BestYesBid
          /\ (delivered'.Market = NoTokenID /\ delivered'.Side = "buy")
                => (BestNoAsk' = BestNoAsk /\ NoSize' = NoSize)
          /\ (delivered'.Market = NoTokenID /\ delivered'.Side = "sell")
                => BestNoBid' = BestNoBid ]_vars

(***************************************************************************)
(* Properties of the position tracker (checked under SpecTracker)          *)
(***************************************************************************)
\* the calls of the log that concern one order id, and the last of them
CallsOn(id) == {i \in 1..Len(opLog) : opLog[i].id = id}
LastCallOn(id) == opLog[CHOOSE i \in CallsOn(id) : \A j \in CallsOn(id) : j <= i]
\* the orders tracked according to the call history alone
TrackedByHistory ==
    {id \in OrderIDs : CallsOn(id) # {} /\ LastCallOn(id).op = "Add"}
ExposureByHistory ==
    SumOver([id \in TrackedByHistory |->
                LastCallOn(id).pos.Size * LastCallOn(id).pos.BidPrice],
            TrackedByHistory)

\* C10: after any sequence of Add and Remove calls TotalExposure is the sum of
\* size x price over exactly the orders whose last call was an Add (a second Add
\* under the same order id replaces the first), and it is zero when every
\* tracked order has been removed.
C10_ExposureIsSumOverTracked ==
    /\ DOMAIN positions = TrackedByHistory
    /\ TotalExposure(positions) = ExposureByHistory
    /\ TrackedByHistory = {} => TotalExposure(positions) = 0

\* an order added, added again with another stake, then removed
C10_Witness ==
    /\ Len(opLog) = 3
    /\ opLog[1].op = "Add" /\ opLog[2].op = "Add" /\ opLog[3].op = "Remove"
    /\ opLog[2].id = opLog[1].id /\ opLog[3].id = opLog[1].id
    /\ opLog[2].pos.Size * opLog[2].pos.BidPrice # opLog[1].pos.Size * opLog[1].pos.BidPrice
    /\ TotalExposure(positions) = 0

(***************************************************************************)
(* Properties of CheckPositions (checked under SpecRecon)                  *)
(***************************************************************************)
\* what the last pass did to the ledger it found
ReconciledAsClaimed ==
    pass.ran =>
        /\ DOMAIN positions \subseteq DOMAIN pass.before
        /\ \A id \in DOMAIN pass.before :
              /\ id \notin pass.open => id \notin DOMAIN positions
              /\ (id \in pass.open /\ id \notin DOMAIN positions)
                    => (id \in pass.staleAt /\ id \in pass.cancelOK)
              /\ id \in DOMAIN positions => positions[id] = pass.before[id]

\* C11: a tracked order leaves the ledger only in a live CheckPositions pass
\* that obtained the open orders; after such a pass every tracked order not
\* reported open is gone, an order reported open is gone only if it was older
\* than the staleness ceiling and its cancel request succeeded, and every other
\* tracked order is as it was before the pass.
C11_LeavesOnlyByReconciliation ==
    /\ []ReconciledAsClaimed
    /\ [][(DOMAIN positions \ DOMAIN positions') # {} => pass'.ran]_vars

\* a pass that dropped an unreported order and kept a stale one whose cancel
\* request failed
C11_Witness ==
    /\ pass.ran
    /\ \E id \in DOMAIN pass.before : id \notin pass.open /\ id \notin DOMAIN positions
    /\ \E id \in DOMAIN positions :
          id \in pass.open /\ id \in pass.staleAt /\ id \notin pass.cancelOK

(***************************************************************************)
(* Properties of the shared tracker (checked under SpecConc)               *)
(***************************************************************************)
\* what the call returns when run alone on the ledger pt
SequentialResult(c, pt) ==
    CASE c.op = "Get" -> GetPos(pt, c.arg)
      [] c.op = "GetAll" -> GetAllPos(pt)
      [] c.op = "Count" -> Count(pt)
      [] c.op = "TotalExposure" -> TotalExposure(pt)
      [] c.op = "HasMarket" -> HasMarket(pt, c.arg)

\* C12: concurrent calls on one tracker behave as the sequence of those calls
\* in the order they took the mutex: every reading call returns what it
\* returns when run alone on the ledger left by the mutations before it, and
\* whenever no Add or Remove is in progress the map holds the outcome of all
\* the Adds and Removes so far, none lost.
C12_CallsAreLinearizable ==
    /\ \A t \in Goroutines :
          (g[t].pc = "ret" /\ g[t].op \in Readers)
              => g[t].res = SequentialResult(g[t], g[t].view)
    /\ (\A t \in Goroutines : g[t].pc \notin {"load", "store"})
          => positions = linearized

\* TotalExposure is inside its range loop, about to visit an order that the
\* other goroutine is waiting to remove
C12_Witness ==
    \E t, u \in Goroutines :
        /\ g[t].pc = "read" /\ g[t].op = "TotalExposure"
        /\ g[u].pc = "entry" /\ g[u].op = "Remove" /\ g[u].arg \in g[t].todo

(***************************************************************************)
(* Properties of BuildOrder (checked under SpecBuilder)                    *)
(***************************************************************************)
\* BuildOrder returned an OrderRequest
Produced == built.called /\ built.req # Nil

\* C13: every order BuildOrder produces with order type FOK or GTC has
\* expiration 0 in the signed order and "0" on the wire, whatever Expiration
\* the caller supplied.
C13_NoExpirationUnlessGTD ==
    (Produced /\ Deref(built.params).OrderType \in {"FOK", "GTC"})
        => /\ Deref(built.order).Expiration = Ptr(0)
           /\ Deref(built.req).Order.Expiration = <<"0">>

\* a FOK order built from parameters that carry an expiration
C13_Witness ==
    /\ Produced
    /\ Deref(built.params).OrderType = "FOK"
    /\ Deref(built.params).Expiration # 0

\* the two amounts of the order built, by role
TokenAmount ==
    IF Deref(built.params).Side = "BUY" THEN Deref(Deref(built.order).TakerAmount)
    ELSE Deref(Deref(built.order).MakerAmount)
CollateralAmount ==
    IF Deref(built.params).Side = "BUY" THEN Deref(Deref(built.order).MakerAmount)
    ELSE Deref(Deref(built.order).TakerAmount)

\* C14 (as claimed): for every numeric (price, size) that BuildOrder accepts,
\* the collateral amount divided by the token amount is exactly priceInt/1000:
\* the quotient exists and collateral * 1000 = priceInt * tokens.
C14_ImpliedPriceIsTickPrice ==
    (/\ Produced
     /\ ~Deref(built.params).Price.nan /\ ~Deref(built.params).Size.nan)
        => /\ TokenAmount # 0
           /\ CollateralAmount * 1000 = built.priceInt * TokenAmount

\* the values the claim lists as invalid
PriceOutsideUnitInterval(x) == ~(~x.nan /\ x.n > 0 /\ x.n < 10000)
SizeNonPositive(x) == ~x.nan /\ x.n <= 0
\* a decimal integer: an optional sign, then one or more digits
ParsesAsDecimalInteger(str) ==
    \E k \in 0..1 :
        /\ Len(str) > k
        /\ k = 1 => str[1] \in {"+", "-"}
        /\ \A i \in (k + 1)..Len(str) : str[i] \in {Digits[d] : d \in 1..10}

\* C15 (as claimed): a call with a price outside (0,1), a non-positive size or
\* a token identifier that is not a decimal integer returns an error, without
\* the signer having been invoked and without an OrderRequest.
C15_InvalidInputRejectedBeforeSigning ==
    (/\ built.called
     /\ \/ PriceOutsideUnitInterval(Deref(built.params).Price)
        \/ SizeNonPositive(Deref(built.params).Size)
        \/ ~ParsesAsDecimalInteger(Deref(built.params).TokenID))
        => /\ built.err # NoError
           /\ ~built.signed
           /\ built.req = Nil

\* C16 (as claimed): every order built is in direct custody (maker = signer
\* address, signature type 0) or in delegated custody (maker = the proxy
\* address, signature type 1 or 2), and a builder constructed with a proxy
\* address never emits signature type 0, whatever its signatureType argument.
C16_CustodyConfigurations ==
    (built.called /\ built.order # Nil)
        => /\ \/ /\ Deref(built.order).Maker = Deref(built.order).Signer
                 /\ Deref(built.order).SignatureType = 0
              \/ /\ Deref(built.order).Maker = ProxyWalletAddress
                 /\ Deref(built.order).SignatureType \in {1, 2}
           /\ builder.kind = "NewOrderBuilderWithProxy"
                 => Deref(built.order).SignatureType # 0

\* C17 (as claimed): for every order signed through a builder, the address
\* recovered from the digest and the signature is the order's signer field.
C17_SignerFieldIsSigningKey ==
    (built.called /\ built.signed)
        => built.recovered = Deref(built.order).Signer

(***************************************************************************)
(* Properties of the signer (checked under SpecSigner)                     *)
(***************************************************************************)
\* C18 (as claimed): under the signer's fixed domain, two orders accepted by
\* validateOrder that differ in some field have different digests.
C18_DistinctOrdersDistinctDigests ==
    (/\ sigCall.fn = "GetOrderHash" /\ sigCall.err = NoError
     /\ prevHash.order # Nil
     /\ prevHash.order # sigCall.order)
        => prevHash.digest # sigCall.digest

\* C19: the recovery-id byte of every signature SignOrder or SignOrderRaw
\* returns is 27 or 28, whether the signing produced recovery id 0 or 1.
C19_RecoveryByteIs27Or28 ==
    (sigCall.fn \in {"SignOrder", "SignOrderRaw"} /\ sigCall.err = NoError)
        => sigCall.v \in {27, 28}

\* SignOrder returned a signature whose last byte parses as 28, and
\* SignOrderRaw could return one too
C19_Witness ==
    /\ sigCall.fn = "SignOrder" /\ sigCall.err = NoError
    /\ sigCall.v = 28

\* the orders the claim lists as invalid
InvalidAsClaimed(order) ==
    \/ order = Nil
    \/ \E f \in BigIntFields : Deref(order)[f] = Nil
    \/ Deref(order).Side \notin {0, 1}
    \/ Deref(order).SignatureType \notin {0, 1, 2}

\* C20: SignOrder, SignOrderRaw and GetOrderHash return an error, without
\* signing, when the order is nil, a big-integer field is unset, side is not 0
\* or 1, or signatureType is not 0, 1 or 2; for every other order validation
\* passes and they return without error.
C20_ValidationRejectsExactlyInvalid ==
    sigCall.fn # "none"
        => /\ InvalidAsClaimed(sigCall.order)
                => (sigCall.err = ErrInvalidOrder /\ ~sigCall.signed)
           /\ ~InvalidAsClaimed(sigCall.order) => sigCall.err = NoError

\* SignOrderRaw refused an order whose only fault is signature type 3
C20_Witness ==
    /\ sigCall.fn = "SignOrderRaw"
    /\ sigCall.order # Nil
    /\ \A f \in BigIntFields : Deref(sigCall.order)[f] # Nil
    /\ Deref(sigCall.order).Side = 1
    /\ Deref(sigCall.order).SignatureType = 3
    /\ sigCall.err = ErrInvalidOrder /\ ~sigCall.signed

(***************************************************************************)
(* Further properties of the REST client (checked under SpecProxy)         *)
(***************************************************************************)

\* C21: with zero or one proxy configured, every doRequest makes exactly one
\* attempt and performs no rotation, whatever that attempt comes back with
\* (transport error, 403 or any other status).
C21_SingleAttemptWithoutRotation ==
    Len(proxyURLs) <= 1
        => /\ rotations = 0
           /\ currentProxy = 0
           /\ httpVia = (IF Len(proxyURLs) = 0 THEN -1 ELSE 0)
           /\ reqPC = "loop" => tried = <<>>
           /\ (reqPC = "idle" /\ result # "none")
                 => (Len(tried) = 1 /\ result \in {"resp", "err"})

\* the only proxy answered 403 and doRequest handed that response back
C21_Witness ==
    /\ Len(proxyURLs) = 1
    /\ reqPC = "idle" /\ result = "resp" /\ respStatus = "403"
    /\ Len(tried) = 1 /\ rotations = 0

AllProxies == 0..(Len(proxyURLs) - 1)

\* C22: after a request failed because the whole proxy list was exhausted the
\* client remains usable: the proxy list is never changed, the current index
\* still points at a configured proxy (the one the transport dials through),
\* and the following request fails only after the full list was tried again.
C22_UsableAfterExhaustion ==
    /\ [](result = "exhausted"
            => /\ currentProxy \in AllProxies
               /\ httpVia = currentProxy
               /\ ProxiesTried = AllProxies)
    /\ [](prevResult = "exhausted"
            => /\ currentProxy \in AllProxies
               /\ reqPC = "loop" => Len(tried) = attempt /\ attempt < Len(proxyURLs)
               /\ (reqPC = "idle" /\ result \in {"err", "exhausted"})
                     => ProxiesTried = AllProxies)
    /\ [][proxyURLs' = proxyURLs]_vars

\* the request after an exhausted one went through every proxy again
C22_Witness ==
    /\ prevResult = "exhausted"
    /\ reqPC = "idle" /\ result = "exhausted"
    /\ Len(proxyURLs) >= 2 /\ Len(tried) = Len(proxyURLs)

\* statuses outside 2xx other than 403
OtherNon2xx == {"500"}
SuccessFalse(raw) == Unmarshal(raw).ok /\ ~Unmarshal(raw).Success

\* the pieces a returned error carries
Carries(a, piece) == a.code = piece \/ \E i \in 1..Len(a.text) : a.text[i] = piece

\* C23 (as claimed): a non-2xx response other than 403, and a 2xx response
\* whose payload says success:false, are never retried: no attempt and no
\* rotation follows them, and the error surfaced to the caller carries the
\* status and the raw response body.
C23_NotRetriedAndSurfacedWithBody ==
    /\ \A i \in 1..Len(tried) :
           tried[i].out \in OtherNon2xx \cup {"200"}
               => /\ i = Len(tried)
                  /\ reqPC = "idle" /\ result = "resp" /\ respStatus = tried[i].out
                  /\ rotations = Len(tried) - 1
    /\ ( /\ api.fn # "none" /\ result = "resp"
         /\ \/ respStatus \in OtherNon2xx
            \/ respStatus = "200" /\ SuccessFalse(api.body) )
       => (api.failed /\ Carries(api, respStatus) /\ Carries(api, api.body))

(***************************************************************************)
(* Cancellation (checked under SpecCancel)                                 *)
(***************************************************************************)
\* no periodic task of the process is running any more
AllExited ==
    /\ task.pc = "returned"
    /\ runPC = (IF task.wsStarted THEN "returned" ELSE "idle")
    /\ pingPC = "none"

ConnectedAndResubscribed ==
    /\ conn # 0 /\ resubDone /\ runPC \in ReadPCs
    /\ ownerPC = "idle"

\* C25 (as claimed): under every interleaving of Subscribe / Unsubscribe with
\* Run's close-connect-resubscribe sequence, once the client is connected and
\* resubscribed the ids subscribed on the current connection are exactly the
\* tracked set.
C25_ConnectionHoldsTrackedSet ==
    ConnectedAndResubscribed => onConn = subscribed

(***************************************************************************)
(* Properties of the Black Swan hunter's limits (checked under SpecScan)   *)
(***************************************************************************)
\* C26 (as claimed): the total exposure of the tracked orders, the sum of
\* shares times bid price, never exceeds BLACKSWAN_MAX_EXPOSURE, also when
\* PlaceBet raises a bet to the minimum of five shares.
C26_ExposureWithinLimit == TotalExposure(positions) <= hCfg.MaxExposure

\* C27: the number of tracked open orders never exceeds BLACKSWAN_MAX_POSITIONS.
C27_PositionsWithinLimit == Count(positions) <= hCfg.MaxPositions

\* a scan stopped at the position limit with candidates still to look at,
\* after an earlier bet had filled the tracker up to the limit
C27_Witness ==
    /\ scan.ran /\ scan.stop = "positions" /\ scan.left > 0
    /\ hCfg.MaxPositions > 0 /\ Count(positions) = hCfg.MaxPositions

(***************************************************************************)
(* Properties of the observers of the stream (checked under SpecNotify)    *)
(***************************************************************************)
\* the read path is through with frame k
Dispatched(k) == k < Len(arrived) \/ dispatch.pc = "read"

Received(h, k) ==
    \E j \in DOMAIN dlog :
        dlog[j].obs = h /\ dlog[j].frame = k /\ dlog[j].update = arrived[k]

\* the observer was the nth to register
RegistrationIndex(h) == handlers[CHOOSE i \in DOMAIN handlers : handlers[i].obs = h].nth

\* C28: every update decoded from an inbound frame is handed to every observer
\* registered before the frame arrived, in the order of registration and
\* before the next frame is read; the updates of one instrument reach an
\* observer in the order their frames arrived.
C28_DeliveredInRegistrationAndArrivalOrder ==
    /\ \A k \in DOMAIN arrived :
        (arrived[k].TokenID # "" /\ Dispatched(k)) =>
            \A i \in DOMAIN handlers :
                handlers[i].at < k => Received(handlers[i].obs, k)
    /\ \A j1, j2 \in DOMAIN dlog :
        j1 < j2 =>
            /\ dlog[j1].frame <= dlog[j2].frame
            /\ dlog[j1].frame = dlog[j2].frame =>
                   RegistrationIndex(dlog[j1].obs) < RegistrationIndex(dlog[j2].obs)
            /\ (dlog[j1].obs = dlog[j2].obs
                    /\ dlog[j1].update.TokenID = dlog[j2].update.TokenID) =>
                   dlog[j1].frame < dlog[j2].frame

\* two observers, the second registered after the first frame, and two
\* updates of one instrument delivered to both
C28_Witness ==
    /\ Len(handlers) = 2 /\ handlers[2].at >= 1
    /\ dispatch.pc = "read" /\ Len(arrived) = MaxFrames
    /\ arrived[2].TokenID = YesTokenID /\ arrived[3].TokenID = YesTokenID
    /\ Received(handlers[1].obs, 2) /\ Received(handlers[2].obs, 2)
    /\ Received(handlers[1].obs, 3) /\ Received(handlers[2].obs, 3)

(***************************************************************************)
(* Properties of the Telegram bot (checked under SpecBot)                  *)
(***************************************************************************)
\* C29: a bot created with an empty token is in disabled mode; whatever
\* sending operations are called on it, in whatever order, none returns an
\* error and no request goes to the network.
C29_DisabledBotNeverFailsNorSends ==
    (bot.made /\ bot.token = "") =>
        /\ bot.disabled
        /\ netCalls = 0
        /\ ~botLast.err

\* a bot without token after MaxCalls operations, the last one NotifyError
C29_Witness ==
    /\ bot.made /\ bot.token = ""
    /\ botCalls = MaxCalls /\ botLast.op = "NotifyError"

(***************************************************************************)
(* Properties of the retry loop of WSClient.Run (checked under SpecWS)     *)
(***************************************************************************)
\* Run goes back to the top of its loop after a failure: from the sleep that
\* follows a failed Connect or the end of readLoop, or from a failed resubscribe
RetriesAfterFailure == runPC \in {"sleep", "resubClose"} /\ runPC' = "top"

\* C30 (as claimed): whenever Run goes from disconnected back to connecting
\* after a failure (Connect failed, resubscribe failed, or a read error), it
\* has waited for the current backoff first, and the backoff is doubled up
\* to the ceiling.
C30_BackoffBeforeEveryRetry ==
    [][RetriesAfterFailure => (runPC = "sleep" /\ backoff' = nextBackoff(backoff))]_vars

\* a write on the open connection failed and the call that made it is over:
\* Subscribe or Unsubscribe returns the error, or pingLoop returns
OwnerWriteFailed == ownerPC \in {"subWrite", "unsubWrite"} /\ ownerPC' = "ret" /\ conn # 0
PingWriteFailed == pingPC = "writing" /\ pingPC' = "none" /\ conn # 0
\* Run has dealt with a failed resubscribe or with the end of readLoop
RunHandledError == runPC \in {"resubClose", "closeAfterRead"} /\ runPC' \in {"top", "sleep"}
\* Close() returns
CloseReturned == ownerPC = "closeConn" /\ ownerPC' = "idle"

\* C31 (as claimed): a read error, a write error (a failed subscribe,
\* unsubscribe, resubscribe or ping write) and an explicit close each take the
\* stream back to disconnected: when the call that met the error is over, the
\* connection handle is cleared.
C31_DisconnectedAfterEveryError ==
    [][(OwnerWriteFailed \/ PingWriteFailed \/ RunHandledError \/ CloseReturned)
          => conn' = 0]_vars

(***************************************************************************)
(* Further properties of BuildOrder (checked under SpecBuilder)            *)
(***************************************************************************)
\* C32 (as claimed): every order BuildOrder produces with order type GTD
\* expires after the time it was built: the expiration is the caller's value
\* when there is one and the time of building plus 3600 seconds when the
\* caller gave 0, in the signed order and on the wire.
C32_GTDExpirationInFuture ==
    (Produced /\ Deref(built.params).OrderType = "GTD")
        => LET given == Deref(built.params).Expiration
               expiration == Deref(Deref(built.order).Expiration)
           IN  /\ expiration > BuildTime
               /\ expiration = (IF given = 0 THEN BuildTime + defaultExpirationSeconds
                                ELSE given)
               /\ Deref(built.req).Order.Expiration = FormatInt(expiration)

C37_PriceInsideAndAmountsPositive ==
    (/\ Produced
     /\ ~Deref(built.params).Price.nan /\ ~Deref(built.params).Size.nan)
        => /\ built.priceInt >= 1 /\ built.priceInt <= 999
           /\ Deref(Deref(built.order).MakerAmount) > 0
           /\ Deref(Deref(built.order).TakerAmount) > 0

\* chain ids and contracts for the comparison of domain separators
DomainPairs == {137, 80002} \X {ExchangeContract, NegRiskExchangeContract}

\* signers made for the same chain id and contract have the same domain
\* separator, signers made for different ones have different separators
SameDomainIffSamePair ==
    \A p, q \in DomainPairs :
        (NewSignerWithConfig("w1", p[1], p[2]).domainSeparator
            = NewSignerWithConfig("w2", q[1], q[2]).domainSeparator) <=> (p = q)

\* BuildOrder has reached its signing step
SigningReached == built.called /\ built.order # Nil

\* C36 (as claimed): whichever constructor made the builder, it has a signer
\* for the standard exchange domain and one for the neg-risk domain, the two
\* domains differ, and an order BuildOrder signs is signed against the
\* neg-risk domain exactly when params.NegRisk is set; domain separators are
\* equal exactly for equal (chain id, contract) pairs.
C36_SigningDomainChosenByNegRisk ==
    /\ builder.b.signer # Nil /\ builder.b.negRiskSigner # Nil
    /\ (builder.b.signer # Nil /\ builder.b.negRiskSigner # Nil)
          => Deref(builder.b.signer).domainSeparator
                # Deref(builder.b.negRiskSigner).domainSeparator
    /\ SigningReached
          => /\ ~built.panicked
             /\ built.domain =
                   (IF Deref(built.params).NegRisk
                    THEN computeDomainSeparator(DomainName, ChainID, NegRiskExchangeContract)
                    ELSE computeDomainSeparator(DomainName, ChainID, ExchangeContract))
    /\ SameDomainIffSamePair

\* the side a wire string names: 0 for "BUY", 1 for "SELL", none otherwise
WireSide(str) == IF str = "BUY" THEN {0} ELSE IF str = "SELL" THEN {1} ELSE {}

\* C40 (as claimed): in every request BuildOrder returns, each field on the
\* wire denotes the value that was hashed and signed: salt, maker, signer,
\* taker, token id, maker and taker amount, expiration, nonce, fee rate and
\* signature type, and the side string names the signed side integer, for
\* every side value BuildOrder accepts.
C40_WireFieldsDenoteSignedValues ==
    Produced =>
        LET wire == Deref(built.req).Order
            signed == Deref(built.order)
        IN  /\ wire.Salt = Deref(signed.Salt)
            /\ wire.Maker = LowerHex(signed.Maker)
            /\ wire.Signer = LowerHex(signed.Signer)
            /\ wire.Taker = LowerHex(signed.Taker)
            /\ SetString(wire.TokenID) = signed.TokenID
            /\ SetString(wire.MakerAmount) = signed.MakerAmount
            /\ SetString(wire.TakerAmount) = signed.TakerAmount
            /\ SetString(wire.Expiration) = signed.Expiration
            /\ SetString(wire.Nonce) = signed.Nonce
            /\ SetString(wire.FeeRateBps) = signed.FeeRateBps
            /\ wire.SignatureType = signed.SignatureType
            /\ WireSide(wire.Side) = {signed.Side}

(***************************************************************************)
(* The response doRequest returns (checked under SpecProxy)                *)
(***************************************************************************)
\* C39 (as claimed): a response doRequest hands to its caller never has a
\* body doRequest has already closed, the 403 path on which the rotation
\* fails included.
C39_ReturnedBodyNotClosed == result = "resp" => ~respClosed

(***************************************************************************)
(* Writers of the connection (checked under SpecWS)                        *)
(***************************************************************************)
\* writeJSON has written a message (Subscribe, Unsubscribe or resubscribe)
JSONWritten ==
    /\ conn # 0
    /\ \/ ownerPC = "subWrite" /\ ownerPC' = "subUpdate"
       \/ ownerPC = "unsubWrite" /\ ownerPC' = "unsubUpdate"
       \/ runPC = "resubWrite" /\ runPC' = "readStart"
\* closeConnection has written the close frame and closed the handle
CloseFrameWritten == conn # 0 /\ conn' = 0
\* pingLoop is inside conn.WriteMessage on the open connection
PingWriting == pingPC = "writing" /\ conn # 0

\* C38 (as claimed): at most one goroutine writes to the connection at any
\* time: no message of writeJSON and no close frame of closeConnection is
\* written while pingLoop is writing its ping.
C38_SingleWriter ==
    [][(JSONWritten \/ CloseFrameWritten) => ~PingWriting]_vars

(***************************************************************************)
(* One position per market, and what PlaceBet tracks                       *)
(* (checked under SpecScan and SpecBet)                                    *)
(***************************************************************************)
\* C34: after any sequence of scan and reconciliation passes the tracker never
\* holds two positions with the same market slug: ScanAndBet places an order
\* in a market only when HasMarket finds no tracked position of that market.
C34_OnePositionPerMarket ==
    \A a, b \in DOMAIN positions :
        positions[a].MarketSlug = positions[b].MarketSlug => a = b

\* a pass went through all its candidates, one of them in a market that was
\* tracked when the pass began, and the market is still tracked
C34_Witness ==
    /\ scan.ran /\ scan.held /\ scan.stop = "end"
    /\ Count(positions) >= 1
    /\ Count(positions) < hCfg.MaxPositions
    /\ TotalExposure(positions) < hCfg.MaxExposure

\* the call added a position to the tracker
EntryCreated == bet.called /\ bet.after # bet.before
\* the call came back with an error and left tracker and bet counter as they were
FailedWithoutTrace ==
    bet.err /\ bet.after = bet.before /\ bet.totalBets = bet.was

=============================================================================
